---- MODULE Spec2Model ----
(***************************************************************************)
(* A model of the directory aggregation engine of directory-to-object:     *)
(* DirectoryValueLoader.loadValue (object and array variant), the option   *)
(* and value merge utilities and the number-aware ordering it sorts by.    *)
(*                                                                         *)
(* Strings are sequences of one-character strings, so that parsing,        *)
(* suffix tests and lexicographic comparison are computed, not assumed.    *)
(***************************************************************************)
EXTENDS Integers, Sequences, FiniteSets, TLC

(***************************************************************************)
(* Bounds of the model.                                                    *)
(***************************************************************************)
\* Largest number of entries in the listing of the root directory.
MaxEntries == 2

(***************************************************************************)
(* Strings.                                                                *)
(***************************************************************************)
Digits == <<"0", "1", "2", "3", "4", "5", "6", "7", "8", "9">>

IsDigit(c) == \E i \in 1..10 : Digits[i] = c

DigitValue(c) == (CHOOSE i \in 1..10 : Digits[i] = c) - 1

\* s.endsWith(suffix)
EndsWith(s, suffix) ==
  /\ Len(suffix) <= Len(s)
  /\ SubSeq(s, Len(s) - Len(suffix) + 1, Len(s)) = suffix

\* s.substring(0, s.length - n)
DropLast(s, n) == SubSeq(s, 1, Len(s) - n)

\* An optional string: JavaScript's string | undefined.
Undefined == [def |-> FALSE, s |-> <<>>]

Defined(s) == [def |-> TRUE, s |-> s]

(***************************************************************************)
(* Number.parseInt and String(number), as far as parseInt (the library's)  *)
(* uses them: leading white space is skipped, a sign is read, then the     *)
(* longest prefix of decimal digits; no digit gives NaN.                   *)
(***************************************************************************)
NaN == [nan |-> TRUE, n |-> 0]

Num(n) == [nan |-> FALSE, n |-> n]

RECURSIVE SkipSpaces(_)
SkipSpaces(s) ==
  IF s # <<>> /\ Head(s) = " " THEN SkipSpaces(Tail(s)) ELSE s

RECURSIVE DigitPrefixValue(_, _, _)
\* The value of the longest digit prefix of s, NaN if it is empty.
DigitPrefixValue(s, acc, seen) ==
  IF s # <<>> /\ IsDigit(Head(s))
    THEN DigitPrefixValue(Tail(s), 10 * acc + DigitValue(Head(s)), TRUE)
    ELSE IF seen THEN Num(acc) ELSE NaN

NumberParseInt(value) ==
  LET t == SkipSpaces(value)
      negative == t # <<>> /\ Head(t) = "-"
      signed == t # <<>> /\ Head(t) \in {"-", "+"}
      body == IF signed THEN Tail(t) ELSE t
      hex == Len(body) >= 2 /\ body[1] = "0" /\ body[2] \in {"x", "X"}
      m == DigitPrefixValue(body, 0, FALSE)
  IN  IF hex THEN Num(0)   \* never the canonical numeral of the string
      ELSE IF m.nan THEN NaN
      ELSE IF negative THEN Num(0 - m.n) ELSE m

RECURSIVE NaturalToString(_)
NaturalToString(n) ==
  IF n < 10 THEN <<Digits[n + 1]>>
  ELSE NaturalToString(n \div 10) \o <<Digits[(n % 10) + 1]>>

\* String(n) of an integer n (String(-0) is "0").
NumberToString(n) ==
  IF n < 0 THEN <<"-">> \o NaturalToString(0 - n) ELSE NaturalToString(n)

\* A parseInt that takes what Number.parseInt reads of a prefix.
ParseIntOfPrefix(value) == NumberParseInt(value)

\* parseInt of number_aware_comparison.ts: a number only if the string is
\* completely the numeral of the number parsed.
ParseInt(value) ==
  LET maybeInt == NumberParseInt(value)
  IN  IF ~maybeInt.nan /\ NumberToString(maybeInt.n) = value
        THEN maybeInt
        ELSE NaN

(***************************************************************************)
(* String.prototype.localeCompare in the constant locale, on the alphabet  *)
(* of the model: punctuation before digits before letters, compared        *)
(* character by character, a proper prefix first.  Canonically equivalent  *)
(* strings compare equal: the letter e followed by the combining acute     *)
(* accent U+0301 is the letter U+00E9.                                     *)
(***************************************************************************)
Alphabet ==
  <<" ", "_", "-", ".", "/", "0", "1", "2", "3", "4", "5", "6", "7", "8",
    "9", "a", "b", "c", "d", "e", "U+00E9", "f", "j", "l", "m", "n", "o", "s",
    "t", "u", "x", "y", "U+0301">>

CharRanks ==
  [c \in {Alphabet[i] : i \in 1..Len(Alphabet)} |->
     CHOOSE i \in 1..Len(Alphabet) : Alphabet[i] = c]

CharRank(c) == CharRanks[c]

RECURSIVE Normalize(_)
\* The canonical composition of a string.
Normalize(s) ==
  IF s = <<>> THEN <<>>
  ELSE IF Len(s) >= 2 /\ s[1] = "e" /\ s[2] = "U+0301"
    THEN <<"U+00E9">> \o Normalize(SubSeq(s, 3, Len(s)))
  ELSE <<Head(s)>> \o Normalize(Tail(s))

RECURSIVE Collate(_, _)
\* The order of two composed strings, rank by rank.
Collate(a, b) ==
  IF a = <<>> THEN (IF b = <<>> THEN 0 ELSE -1)
  ELSE IF b = <<>> THEN 1
  ELSE IF CharRank(Head(a)) < CharRank(Head(b)) THEN -1
  ELSE IF CharRank(Head(a)) > CharRank(Head(b)) THEN 1
  ELSE Collate(Tail(a), Tail(b))

LocaleCompare(a, b) == Collate(Normalize(a), Normalize(b))

\* numberAwareComparison(a, b) on optional strings.
NumberAwareComparison(a, b) ==
  IF ~a.def THEN (IF ~b.def THEN 0 ELSE -1)
  ELSE IF ~b.def THEN 1
  ELSE LET aNum == ParseInt(a.s)
           bNum == ParseInt(b.s)
       IN  IF ~aNum.nan
             THEN (IF ~bNum.nan THEN aNum.n - bNum.n ELSE -1)
             ELSE IF ~bNum.nan THEN 1
             ELSE LocaleCompare(a.s, b.s)

(***************************************************************************)
(* Values: what loaders return and what the engine assembles.  A plain     *)
(* record and an array are both JavaScript objects: a map from property    *)
(* names to values, an array with its length.  All values have one shape   *)
(* so that any two compare.                                                *)
(***************************************************************************)
NoProps == <<>>

Prim(p) ==
  [kind |-> "prim", p |-> p, url |-> <<>>, props |-> NoProps, len |-> 0]

UrlValue(u) ==
  [kind |-> "url", p |-> "", url |-> u, props |-> NoProps, len |-> 0]

Rec(props) ==
  [kind |-> "rec", p |-> "", url |-> <<>>, props |-> props, len |-> 0]

Arr(props, len) ==
  [kind |-> "arr", p |-> "", url |-> <<>>, props |-> props, len |-> len]

\* A property name that is written as one word in the options.
Key(word) == <<word>>

\* isRecord(candidate) of is_record.ts
IsRecord(candidate) == candidate.kind = "rec"

\* Array.isArray(candidate)
IsArray(candidate) == candidate.kind = "arr"

\* typeof candidate === "object" (a URL is an object, and no plain record)
IsObject(candidate) == candidate.kind \in {"rec", "arr", "url"}

HasProp(target, key) == key \in DOMAIN target.props

\* target[key] = value on a plain record
SetProp(target, key, value) ==
  [target EXCEPT !.props =
     [k \in DOMAIN target.props \cup {key} |->
        IF k = key THEN value ELSE target.props[k]]]

\* result[index] = value on an array: a non-negative integer index is an
\* element and extends the length, any other number is a plain property.
SetIndex(result, index, value) ==
  LET set == SetProp(result, NumberToString(index), value)
  IN  IF index >= 0 /\ index + 1 > result.len
        THEN [set EXCEPT !.len = index + 1]
        ELSE set

(***************************************************************************)
(* Options: undefined, or an object holding some of the attributes of      *)
(* ValueLoaderOptions.  Attribute values are written as strings.           *)
(***************************************************************************)
NoOptions == [def |-> FALSE, o |-> <<>>]

Options(o) == [def |-> TRUE, o |-> o]

\* options?.attribute is set
Has(options, attribute) == options.def /\ attribute \in DOMAIN options.o

\* options?.attribute, "" standing for undefined
Get(options, attribute) ==
  IF Has(options, attribute) THEN options.o[attribute] ELSE ""

\* The attributes of ValueLoaderOptions.
Attributes ==
  {"signal", "includeSymlinks", "fileSystemReader", "objectMergeFunction",
   "arrayMergeFunction", "embedDirectoryUrlAs", "embedFileUrlAs",
   "propertyNameDecoder", "strict"}

\* A mergeOptions in which the defaults win where both set an attribute.
MergeOptionsDefaultsWin(defaultOptions, options) ==
  IF ~defaultOptions.def THEN options
  ELSE IF ~options.def THEN defaultOptions
  ELSE Options([a \in DOMAIN defaultOptions.o \cup DOMAIN options.o |->
                  IF a \in DOMAIN defaultOptions.o
                    THEN defaultOptions.o[a]
                    ELSE options.o[a]])

\* mergeOptions(defaultOptions, options) of merge_utilities.ts
MergeOptions(defaultOptions, options) ==
  IF ~defaultOptions.def THEN options
  ELSE IF ~options.def THEN defaultOptions
  ELSE Options([a \in DOMAIN defaultOptions.o \cup DOMAIN options.o |->
                  IF a \in DOMAIN options.o
                    THEN options.o[a]
                    ELSE defaultOptions.o[a]])

(***************************************************************************)
(* Merge functions are supplied by the caller.  The model has two for      *)
(* records and two for arrays that can be told apart by their results:     *)
(* "assign" and "defaults" merge the properties of two records, the new    *)
(* respectively the existing value winning; "concat" and "keep" append     *)
(* the new elements respectively keep the existing array.                  *)
(***************************************************************************)
RECURSIVE ConcatFrom(_, _, _)
ConcatFrom(existing, new, i) ==
  IF i >= new.len THEN existing
  ELSE LET k == NumberToString(i)
           next == IF HasProp(new, k)
                     THEN SetIndex(existing, existing.len, new.props[k])
                     ELSE [existing EXCEPT !.len = existing.len + 1]
       IN  ConcatFrom(next, new, i + 1)

ApplyMerge(fn, existingValue, newValue) ==
  CASE fn = "assign" ->
         Rec([k \in DOMAIN existingValue.props \cup DOMAIN newValue.props |->
                IF k \in DOMAIN newValue.props
                  THEN newValue.props[k]
                  ELSE existingValue.props[k]])
    [] fn = "defaults" ->
         Rec([k \in DOMAIN existingValue.props \cup DOMAIN newValue.props |->
                IF k \in DOMAIN existingValue.props
                  THEN existingValue.props[k]
                  ELSE newValue.props[k]])
    [] fn = "concat" -> ConcatFrom(existingValue, newValue, 0)
    [] fn = "keep" -> existingValue
    [] OTHER -> newValue

\* _overwrite(existingValue, newValue) of merge_utilities.ts
Overwrite(existingValue, newValue) == newValue

\* The merge function setOrMergeValue applies to an existing and a new value
\* under the options: "" when it plainly assigns.
MergeFunctionFor(target, key, value, options) ==
  IF IsObject(value) /\ HasProp(target, key)
    THEN IF IsArray(value) /\ IsArray(target.props[key])
           THEN (IF Has(options, "arrayMergeFunction")
                   THEN Get(options, "arrayMergeFunction")
                   ELSE "_overwrite")
         ELSE IF IsRecord(value) /\ IsRecord(target.props[key])
           THEN (IF Has(options, "objectMergeFunction")
                   THEN Get(options, "objectMergeFunction")
                   ELSE "_overwrite")
         ELSE ""
    ELSE ""

\* A setOrMergeValue that hands the merge function the new value first.
SetOrMergeValueSwapped(target, key, value, options) ==
  LET merge == MergeFunctionFor(target, key, value, options)
  IN  IF merge = "" THEN SetProp(target, key, value)
      ELSE IF merge = "_overwrite"
        THEN SetProp(target, key, Overwrite(target.props[key], value))
      ELSE SetProp(target, key, ApplyMerge(merge, value, target.props[key]))

\* setOrMergeValue(target, key, value, options) of merge_utilities.ts
SetOrMergeValue(target, key, value, options) ==
  LET merge == MergeFunctionFor(target, key, value, options)
  IN  IF merge = "" THEN SetProp(target, key, value)
      ELSE IF merge = "_overwrite"
        THEN SetProp(target, key, Overwrite(target.props[key], value))
      ELSE SetProp(target, key, ApplyMerge(merge, target.props[key], value))

(***************************************************************************)
(* The storage backend: the files and directories a listing may present.   *)
(* The type and the parsed content of an entry are fixed by its name.      *)
(***************************************************************************)
aJson == <<"a", ".", "j", "s", "o", "n">>
aYaml == <<"a", ".", "y", "a", "m", "l">>
lJson == <<"l", ".", "j", "s", "o", "n">>
lYaml == <<"l", ".", "y", "a", "m", "l">>
zero == <<"0">>
nineJson == <<"9", ".", "j", "s", "o", "n">>
sub == <<"s", "u", "b">>
bJson == <<"b", ".", "j", "s", "o", "n">>
other == <<"x">>
deep == <<"d">>
cJson == <<"c", ".", "j", "s", "o", "n">>

minusOne == <<"-", "1">>

\* The names of a directory that is loaded as an array.
NumberedNames == {minusOne, zero, nineJson, aJson, other}

\* The names of a directory with a directory that sorts between its files.
SequenceNames == {aJson, deep, lJson, nineJson}

RootNames == {aJson, aYaml, lJson, lYaml, zero, nineJson, sub}

SubNames == {bJson, other, deep}

LeafNames == {cJson}

DirectoryNames == {sub, deep}


TypeOf(name) ==
  IF name \in DirectoryNames THEN "directory"
  ELSE IF name = other THEN "other"
  ELSE "file"

One(word) == Arr([k \in {<<"0">>} |-> Prim(word)], 1)

\* The parsed content of a file.
Contents(name) ==
  CASE name = aJson -> Rec([k \in {Key("x")} |-> Prim("1")])
    [] name = aYaml -> Rec([k \in {Key("y")} |-> Prim("2")])
    [] name = lJson -> One("1")
    [] name = lYaml -> One("2")
    [] name = bJson -> Rec([k \in {Key("k")} |-> Prim("1")])
    [] OTHER -> Prim(name[1])

\* The listings without repetition of at most n of the names.
Listings(names, n) ==
  {l \in UNION {[1..k -> names] : k \in 0..n} :
     \A i, j \in 1..Len(l) : l[i] = l[j] => i = j}

\* What the listing of the root, of a directory of the root and of a
\* directory below may be: a nested directory lists half as many entries.
RootListings == Listings(RootNames, MaxEntries)

SubListings == Listings(SubNames, MaxEntries \div 2)

LeafListings == Listings(LeafNames, MaxEntries \div 2)

NumberedListings == Listings(NumberedNames, MaxEntries)

SequenceListings == Listings(SequenceNames, MaxEntries)

ListingsAt(depth) ==
  IF depth = 0 THEN RootListings
  ELSE IF depth = 1 THEN SubListings
  ELSE LeafListings

Range(seq) == {seq[i] : i \in 1..Len(seq)}

Orderings(seq) ==
  {l \in [1..Len(seq) -> Range(seq)] : Range(l) = Range(seq)}

\* A DirectoryEntry as readDirectoryContents creates it, with the fields the
\* engine adds to it still unset.
DirectoryEntry(directoryUrl, name) ==
  [name |-> name, type |-> TypeOf(name), url |-> Append(directoryUrl, name),
   relativePath |-> <<>>, loader |-> 0, key |-> Undefined,
   decodedKey |-> Undefined]

\* readTextFromFile(url): the content of a file, a failure for anything else.
ReadTextFromFile(url) ==
  IF url # <<>> /\ TypeOf(url[Len(url)]) = "file"
    THEN [ok |-> TRUE, value |-> Contents(url[Len(url)])]
    ELSE [ok |-> FALSE, value |-> Prim("")]

(***************************************************************************)
(* Value loaders.  A "file" loader is customFile of the loader builder, a  *)
(* "mock" loader is MockValueLoader with the functions the tests give it;  *)
(* "self" is the engine.                                                   *)
(***************************************************************************)
FileLoader(extension) ==
  [kind |-> "file", extension |-> extension, key |-> "strip"]

MockLoader(extension, key) ==
  [kind |-> "mock", extension |-> extension, key |-> key]

Self == [kind |-> "self", extension |-> <<>>, key |-> "name"]

\* A loader for files, keyed by their names, one of whose methods fails
\* for some of the files.
FailingLoader(method) ==
  [kind |-> "failing", extension |-> <<>>, key |-> method]

\* The call of the method of the loader on the entry throws or rejects.
Throws(loader, method, entry) ==
  /\ loader.kind = "failing"
  /\ loader.key = method
  /\ entry.name \in {<<"a", ".", "y", "a", "m", "l">>,
                      <<"b", ".", "j", "s", "o", "n">>}

dotJson == <<".", "j", "s", "o", "n">>
dotYaml == <<".", "y", "a", "m", "l">>

\* The name up to its first dot (the computeKey of the tests).
RECURSIVE Stem(_)
Stem(name) ==
  IF name = <<>> \/ Head(name) = "." THEN <<>>
  ELSE <<Head(name)>> \o Stem(Tail(name))

\* loader.canLoadValue(entry)
CanLoadValue(loader, entry) ==
  CASE loader.kind = "self" -> entry.type = "directory"
    [] loader.kind = "failing" ->
         entry.type = "file" /\ ~Throws(loader, "canLoadValue", entry)
    [] loader.kind = "file" -> EndsWith(entry.name, loader.extension)
    [] loader.kind = "mock" ->
         IF loader.extension = <<>>
           THEN ReadTextFromFile(entry.url).ok   \* contents[url] !== undefined
           ELSE EndsWith(entry.name, loader.extension)

\* loader.computeKey(entry)
ComputeKey(loader, entry) ==
  CASE loader.kind = "self" -> Defined(entry.name)
    [] loader.kind = "failing" -> Defined(entry.name)
    [] loader.kind = "file" ->
         Defined(DropLast(entry.name, Len(loader.extension)))
    [] loader.kind = "mock" ->
         IF loader.key = "undefined" THEN Undefined
         ELSE IF loader.key = "stem" THEN Defined(Stem(entry.name))
         ELSE Defined(entry.name)

\* The loader lists a caller constructs an engine with.
LoaderLists ==
  { <<FileLoader(dotJson), FileLoader(dotYaml)>>,
    <<MockLoader(<<>>, "stem")>> }

\* Loader lists with a loader that gives no key, with loaders that accept
\* the same entries, and with a loader that accepts every entry.
OtherLoaderLists ==
  { <<MockLoader(dotYaml, "undefined"), FileLoader(dotJson),
      MockLoader(<<>>, "name")>>,
    <<FileLoader(<<>>)>> }

\* propertyNameDecoder: the decoders of the model.
Decode(decoder, name) ==
  IF decoder = "lToA"
    THEN [i \in 1..Len(name) |-> IF name[i] = "l" THEN "a" ELSE name[i]]
    ELSE name

(***************************************************************************)
(* The option objects of the model, and the (default options, call-site    *)
(* options) pairs an engine is constructed and called with.                *)
(***************************************************************************)
strictOn == Options("strict" :> "true")
strictOff == Options("strict" :> "false")
aborted == Options("signal" :> "aborted")
live == Options("signal" :> "live")
merging ==
  Options(("objectMergeFunction" :> "assign")
            @@ ("arrayMergeFunction" :> "concat"))
mergingOther ==
  Options(("objectMergeFunction" :> "defaults")
            @@ ("arrayMergeFunction" :> "keep"))
embedding ==
  Options(("embedDirectoryUrlAs" :> "__dir__")
            @@ ("embedFileUrlAs" :> "__file__"))
decoding == Options("propertyNameDecoder" :> "lToA")
overriding == Options("fileSystemReader" :> "override")
symlinks == Options("includeSymlinks" :> "true")

OptionPairs ==
  {<<NoOptions, o>> :
     o \in {NoOptions, strictOn, merging, embedding, aborted, overriding}}
  \cup {<<d, NoOptions>> : d \in {strictOn, merging, embedding, aborted}}
  \cup {<<merging, mergingOther>>, <<strictOn, strictOff>>,
        <<aborted, live>>, <<live, aborted>>, <<decoding, strictOn>>}

OtherOptionPairs ==
  {<<NoOptions, NoOptions>>, <<NoOptions, strictOn>>, <<strictOn, strictOff>>,
   <<decoding, strictOn>>, <<NoOptions, merging>>}

\* What a caller constructs an engine with and calls it with: a loader
\* list, default options and call-site options.  The loaders of the
\* builder meet every pair of options, the other lists a few.
Configurations ==
  {<<l, p[1], p[2]>> :
     l \in {<<FileLoader(dotJson), FileLoader(dotYaml)>>}, p \in OptionPairs}
    \cup {<<l, p[1], p[2]>> :
            l \in (LoaderLists \cup OtherLoaderLists)
                   \ {<<FileLoader(dotJson), FileLoader(dotYaml)>>},
            p \in OtherOptionPairs}

(***************************************************************************)
(* DirectoryValueLoader.                                                   *)
(***************************************************************************)
\* A constructor that registers the engine before the caller's loaders.
DirectoryValueLoaderSelfFirst(variant, loaders, fileSystemReader, defaultOptions) ==
  [variant |-> variant,
   loaders |-> <<Self>> \o loaders,
   fileSystemReader |-> fileSystemReader,
   defaultOptions |-> defaultOptions]

\* The constructor: the caller's loaders are copied and the engine is
\* registered after them.
DirectoryValueLoader(variant, loaders, fileSystemReader, defaultOptions) ==
  [variant |-> variant,
   loaders |-> Append(loaders, Self),
   fileSystemReader |-> fileSystemReader,
   defaultOptions |-> defaultOptions]

\* newEmptyResult()
NewEmptyResult(variant) ==
  IF variant = "object" THEN Rec(NoProps) ELSE Arr(NoProps, 0)

\* An inner loop without its break: the last accepting loader is bound.
FirstAcceptingWithoutBreak(loaders, entry, k) ==
  LET accepting == {j \in k..Len(loaders) : CanLoadValue(loaders[j], entry)}
  IN  IF accepting = {} THEN 0
      ELSE CHOOSE j \in accepting : \A i \in accepting : i <= j

RECURSIVE FirstAccepting(_, _, _)
\* The position of the first loader from position k on whose canLoadValue
\* accepts the entry, 0 if there is none: the inner loop of step 1.  A
\* canLoadValue that throws ends the loop at its loader as well.
FirstAccepting(loaders, entry, k) ==
  IF k > Len(loaders) THEN 0
  ELSE IF CanLoadValue(loaders[k], entry)
            \/ Throws(loaders[k], "canLoadValue", entry) THEN k
  ELSE FirstAccepting(loaders, entry, k + 1)

\* A strict check that takes any value of strict, false too, for set.
StrictViolationWhenPresent(mergedOptions, loaded) ==
  Has(mergedOptions, "strict") /\ ~loaded

\* mergedOptions?.strict && !loaded
StrictViolation(mergedOptions, loaded) ==
  Get(mergedOptions, "strict") = "true" /\ ~loaded

\* A relative path made of the entry's name alone.
RelativePathOfName(parentPath, name) == <<"/">> \o name

\* `${entry.relativePath}/${directoryEntry.name}`
RelativePath(parentPath, name) == parentPath \o <<"/">> \o name

\* The loading decision of an entry in context: the loader at position k
\* was bound to it (0: none), the round ended with the error ("": none) and
\* the loader gave the key.
Decision(loaders, inContext, mergedOptions, k, error, key) ==
  [entry |-> [inContext EXCEPT
                !.loader = k, !.key = key,
                !.decodedKey =
                  IF key.def
                    THEN Defined(Decode(Get(mergedOptions,
                                            "propertyNameDecoder"), key.s))
                    ELSE Undefined],
   probes |-> [j \in 1..(IF k = 0 THEN Len(loaders) ELSE k) |->
                 [loader |-> j, entry |-> inContext,
                  result |-> CanLoadValue(loaders[j], inContext)]],
   keys |-> IF k = 0 \/ error = "ProbeError" THEN <<>>
            ELSE <<[loader |-> k, entry |-> inContext, key |-> key]>>,
   decoder |-> IF key.def /\ Has(mergedOptions, "propertyNameDecoder")
                 THEN <<[entry |-> inContext, name |-> key.s]>>
                 ELSE <<>>,
   failed |-> error # "", error |-> error]

\* The round with the key of the loader bound: loader.computeKey(entry),
\* no key when no loader accepted or one threw.
DecideWith(loaders, inContext, mergedOptions, k, error) ==
  Decision(loaders, inContext, mergedOptions, k, error,
           IF k = 0 \/ error \in {"ProbeError", "KeyError"} THEN Undefined
           ELSE ComputeKey(loaders[k], inContext))

\* The round with the error that ends it, if any: a canLoadValue or a
\* computeKey that throws, or the strict check.
DecideAt(loaders, inContext, mergedOptions, k) ==
  DecideWith(loaders, inContext, mergedOptions, k,
             IF k # 0 /\ Throws(loaders[k], "canLoadValue", inContext)
               THEN "ProbeError"
             ELSE IF k # 0 /\ Throws(loaders[k], "computeKey", inContext)
               THEN "KeyError"
             ELSE IF StrictViolation(mergedOptions, k # 0) THEN "StrictError"
             ELSE "")

\* One round of the outer loop of step 1 on one entry: the entry with its
\* loading decision, and the calls made.
Decide(loaders, entry, parentPath, mergedOptions) ==
  DecideAt(loaders,
           [entry EXCEPT !.relativePath = RelativePath(parentPath, entry.name)],
           mergedOptions,
           FirstAccepting(
             loaders,
             [entry EXCEPT
                !.relativePath = RelativePath(parentPath, entry.name)],
             1))

\* The decisions of a pass with one more.
Accumulate(acc, n, d) ==
  [entries |-> [acc.entries EXCEPT ![n] = d.entry],
   probes |-> acc.probes \o d.probes,
   keys |-> acc.keys \o d.keys,
   decoder |-> acc.decoder \o d.decoder,
   failed |-> d.failed, error |-> d.error]

RECURSIVE DecisionPass(_, _, _, _, _)
\* Step 1 of loadValue from the entry at position n on: the entries decided
\* so far, the calls made, and whether strict mode threw.
DecisionPass(loaders, parentPath, mergedOptions, n, acc) ==
  IF n > Len(acc.entries) \/ acc.failed THEN acc
  ELSE DecisionPass(loaders, parentPath, mergedOptions, n + 1,
         Accumulate(acc, n, Decide(loaders, acc.entries[n], parentPath,
                                   mergedOptions)))

\* Where a stable sort puts the entry e among the sorted entries: before
\* the first one that compares greater.
InsertionPoint(sorted, e) ==
  LET greater == {i \in 1..Len(sorted) :
                    NumberAwareComparison(sorted[i].decodedKey,
                                          e.decodedKey) > 0}
  IN  IF greater = {} THEN Len(sorted) + 1
      ELSE CHOOSE i \in greater : \A j \in greater : i <= j

RECURSIVE SortFrom(_, _, _)
SortFrom(entries, n, sorted) ==
  IF n > Len(entries) THEN sorted
  ELSE LET at == InsertionPoint(sorted, entries[n])
       IN  SortFrom(entries, n + 1,
             SubSeq(sorted, 1, at - 1) \o <<entries[n]>>
               \o SubSeq(sorted, at, Len(sorted)))

\* A step 2 that leaves the entries as they were listed.
Unsorted(entries) == entries

\* Step 2: entries.sort((a, b) => numberAwareComparison(a.decodedKey,
\* b.decodedKey)); Array.prototype.sort is stable.
SortEntries(entries) == SortFrom(entries, 1, <<>>)

\* A setValue whose array variant ignores numeric names.
SetValueAppending(variant, result, decodedKey, index, value, mergedOptions) ==
  IF variant = "object"
    THEN [result |-> SetOrMergeValue(result, decodedKey, value,
                                     mergedOptions),
          index |-> index]
    ELSE [result |-> SetIndex(result, index, value), index |-> index]

\* DirectoryObjectValueLoader.setValue / DirectoryArrayValueLoader.setValue:
\* the result and the index returned.
SetValue(variant, result, decodedKey, index, value, mergedOptions) ==
  IF variant = "object"
    THEN [result |-> SetOrMergeValue(result, decodedKey, value,
                                     mergedOptions),
          index |-> index]
    ELSE LET maybeNameAsIndex == ParseInt(decodedKey)
             at == IF ~maybeNameAsIndex.nan THEN maybeNameAsIndex.n
                   ELSE index
         IN  [result |-> SetIndex(result, at, value), index |-> at]

\* The value as stored for an entry: a plain record loaded from a file gets
\* the URL of the file when embedFileUrlAs is set.
EmbedFileUrl(entry, value, mergedOptions) ==
  IF entry.type = "file" /\ IsRecord(value)
       /\ Has(mergedOptions, "embedFileUrlAs")
    THEN SetProp(value, Key(Get(mergedOptions, "embedFileUrlAs")),
                 UrlValue(entry.url))
    ELSE value

\* embedDirectoryUrl(result, entry, options) of the two variants
EmbedDirectoryUrl(variant, result, entry, options) ==
  IF variant = "object" /\ Has(options, "embedDirectoryUrlAs")
    THEN SetProp(result, Key(Get(options, "embedDirectoryUrlAs")),
                 UrlValue(entry.url))
    ELSE result

(***************************************************************************)
(* The state: an engine, the call in progress (a stack of loadValue         *)
(* activations, the innermost last), what the collaborators were called    *)
(* with, and the directories the backend has listed.                       *)
(***************************************************************************)
VARIABLES
  engine,     \* the DirectoryValueLoader under test
  session,    \* mode: how many top-level loads are made; run: which one
  request,    \* the options of the top-level call
  stack,      \* the activations of loadValue, the root's first
  status,     \* "idle", "running", "resolved" or "rejected"
  outcome,    \* the value or the error of the top-level promise
  log,        \* the calls made to backend, loaders and option functions
  fs,         \* directory URL -> the names its listing presented first
  first,      \* status, outcome and log of the first load of a session
  calc,       \* a call of numberAwareComparison or of the sort of step 2
  fluent      \* the fluent loaders built so far and the calls made on them

vars ==
  <<engine, session, request, stack, status, outcome, log, fs, first, calc,
    fluent>>

\* No call of the comparison yet.
NoCalc == [op |-> "none", a |-> Undefined, b |-> Undefined, result |-> 0,
           keys |-> <<>>, sorted |-> <<>>, results |-> <<>>]

\* No call made on a fluent loader yet.
NoCall ==
  [op |-> "none", loader |-> 0,
   entry |-> [name |-> <<>>, type |-> "directory", url |-> <<>>,
              relativePath |-> <<>>, loader |-> 0, key |-> Undefined,
              decodedKey |-> Undefined],
   options |-> NoOptions, accepted |-> FALSE, key |-> Undefined,
   invoked |-> FALSE, loaded |-> [loader |-> "", options |-> NoOptions],
   error |-> [loader |-> "", url |-> <<>>]]

\* No fluent loader yet.
NoFluent == [loaders |-> <<>>, call |-> NoCall]

NoLog ==
  [backend |-> <<>>, probes |-> <<>>, keys |-> <<>>, loads |-> <<>>,
   decoder |-> <<>>, merges |-> <<>>, stores |-> <<>>, opened |-> <<>>,
   disposed |-> <<>>, thrown |-> <<>>, parsed |-> <<>>]

NoOutcome == [value |-> Prim(""), error |-> ""]

NoFirst == [status |-> "idle", outcome |-> NoOutcome, log |-> NoLog]

\* The entry a caller loads a directory tree from.
RootEntry ==
  [name |-> <<>>, type |-> "directory", url |-> <<>>, relativePath |-> <<>>,
   loader |-> 0, key |-> Undefined, decodedKey |-> Undefined]

\* loadValue(entry, options) up to its first await: the activation that
\* waits for the listing, or the error thrown.
\* A loadValue without its cancellation check.
AbortIgnored(mergedOptions) == FALSE

\* mergedOptions?.signal?.throwIfAborted()
AbortRequested(mergedOptions) == Get(mergedOptions, "signal") = "aborted"

\* mergedOptions?.fileSystemReader ?? this.#fileSystemReader
ActualFileSystemReader(e, mergedOptions) ==
  IF Has(mergedOptions, "fileSystemReader")
    THEN Get(mergedOptions, "fileSystemReader")
    ELSE e.fileSystemReader

\* The innerFileSystemReader of the contents a reader lists: the readers of
\* a "companion" session pass one, "" stands for undefined.
InnerFileSystemReader(reader) ==
  IF session.mode = "companion" THEN "inner" ELSE ""

\* Whether the contents a reader lists come with a dispose function: those
\* of the reader given in the options do not.
WithDispose(reader) == reader # "override"

\* A loadValue that returns without disposing of the listing.
NeverDisposed(calls, url, reader) == calls

\* contents.dispose?.() for the listing of the directory at url, with the
\* number of values stored so far.
Disposed(calls, url, reader) ==
  IF WithDispose(reader)
    THEN [calls EXCEPT !.disposed =
            Append(@, [url |-> url, stores |-> Len(calls.stores)])]
    ELSE calls

Begin(e, entry, options, calls) ==
  LET mergedOptions == MergeOptions(e.defaultOptions, options)
      actualFileSystemReader == ActualFileSystemReader(e, mergedOptions)
  IN  IF entry.type # "directory"
        THEN [error |-> "TypeError", log |-> calls, frame |-> <<>>]
      ELSE IF AbortRequested(mergedOptions)
        THEN [error |-> "AbortReason", log |-> calls, frame |-> <<>>]
      ELSE [error |-> "",
            log |-> [calls EXCEPT !.backend = Append(@,
                       [op |-> "readDirectoryContents",
                        reader |-> actualFileSystemReader,
                        url |-> entry.url,
                        options |-> options])],
            frame |-> <<[entry |-> entry,
                         options |-> options,
                         mergedOptions |-> mergedOptions,
                         entries |-> <<>>,
                         i |-> 0,
                         index |-> 0,
                         result |-> NewEmptyResult(e.variant),
                         pc |-> "listing"]>>]

Top == stack[Len(stack)]

\* A throw whose partial result reaches the caller.
RejectWithResult(error, calls) ==
  /\ status' = "rejected"
  /\ outcome' = [value |-> IF stack = <<>> THEN NewEmptyResult(engine.variant)
                            ELSE stack[1].result,
                 error |-> error]
  /\ stack' = <<>>
  /\ log' = [calls EXCEPT !.thrown = Append(@, error)]

\* An error is thrown in an activation: no activation catches it, and the
\* promise of the top-level call rejects with it.
Reject(error, calls) ==
  /\ status' = "rejected"
  /\ outcome' = [value |-> Prim(""), error |-> error]
  /\ stack' = <<>>
  /\ log' = [calls EXCEPT !.thrown = Append(@, error)]

\* The value set in the result of an activation: the activation goes on
\* with the next entry, the store and a call of a merge function are logged.
StoredAs(frame, embedded, merge, set, calls) ==
  [frame |-> [frame EXCEPT !.result = set.result,
                           !.index = set.index + 1,
                           !.i = @ + 1,
                           !.pc = "load"],
   log |-> [calls EXCEPT
              !.stores = Append(@,
                [entry |-> frame.entries[frame.i],
                 before |-> frame.result,
                 new |-> embedded,
                 index |-> set.index,
                 after |-> set.result]),
              !.merges =
                IF merge \in {"", "_overwrite"} THEN @
                ELSE Append(@,
                  [fn |-> merge,
                   entry |-> frame.entries[frame.i],
                   existing |->
                     frame.result.props[frame.entries[frame.i].decodedKey.s],
                   new |-> embedded])]]

\* The value with the file URL embedded is set.
StoredEmbedded(frame, embedded, calls) ==
  StoredAs(frame, embedded,
           IF engine.variant = "object"
             THEN MergeFunctionFor(frame.result,
                                   frame.entries[frame.i].decodedKey.s,
                                   embedded, frame.mergedOptions)
             ELSE "",
           SetValue(engine.variant, frame.result,
                    frame.entries[frame.i].decodedKey.s, frame.index,
                    embedded, frame.mergedOptions),
           calls)

\* Steps 3 of loadValue for one loaded value: embed the file URL, set the
\* value, advance the index; the activation goes on with the next entry.
Stored(frame, value, calls) ==
  StoredEmbedded(frame,
                 EmbedFileUrl(frame.entries[frame.i], value,
                              frame.mergedOptions),
                 calls)

\* The options of the next top-level call.  The second load of a session
\* repeats the first: with the same options ("permuted"), or with the
\* options that were the defaults of the first engine ("swapped").
CallOptions ==
  IF session.run = 2 THEN {request}
  ELSE IF session.mode \in {"swapped", "numbered", "failing", "cloning",
                           "sequence"}
    THEN {NoOptions}
  ELSE IF session.mode = "companion" THEN {NoOptions, overriding}
  ELSE {c[3] : c \in {k \in Configurations :
                        DirectoryValueLoader(engine.variant, k[1],
                          engine.fileSystemReader, k[2]) = engine}}

\* A loadValue has begun on top of the activations kept: it threw, or its
\* activation waits for the listing.
Began(kept, b) ==
  IF b.error # ""
    THEN Reject(b.error, b.log)
    ELSE /\ status' = "running"
         /\ stack' = kept \o b.frame
         /\ log' = b.log
         /\ UNCHANGED outcome

\* A value was stored in the activation that is now on top of those kept.
Continued(kept, s) ==
  /\ stack' = kept \o <<s.frame>>
  /\ log' = s.log
  /\ UNCHANGED <<status, outcome>>

\* A caller calls loadValue on the root entry.
LoadValueCall ==
  /\ status = "idle"
  /\ \E options \in CallOptions :
       /\ request' = options
       /\ Began(<<>>, Begin(engine, RootEntry, options, log))
  /\ UNCHANGED <<engine, session, fs, first, calc, fluent>>

\* The listings the backend may answer a readDirectoryContents with.
ListingsOf(url) ==
  IF url \in DOMAIN fs
    THEN IF session.mode = "permuted" THEN Orderings(fs[url]) ELSE {fs[url]}
    ELSE IF session.mode = "numbered" /\ url = <<>> THEN NumberedListings
    ELSE IF session.mode = "sequence" /\ url = <<>> THEN SequenceListings
    ELSE ListingsAt(Len(url))

\* Steps 1 and 2 of loadValue on the names listed, given the decisions of
\* step 1: the calls are made; a failure rejects the load, otherwise the
\* entries are sorted and step 3 follows.
Decided(names, pass) ==
  LET url == Top.entry.url
      contents ==
        [url |-> url,
         dispose |->
           WithDispose(ActualFileSystemReader(engine, Top.mergedOptions)),
         innerFileSystemReader |->
           InnerFileSystemReader(
             ActualFileSystemReader(engine, Top.mergedOptions))]
      calls == [log EXCEPT !.opened = Append(@, contents),
                           !.probes = @ \o pass.probes,
                           !.keys = @ \o pass.keys,
                           !.decoder = @ \o pass.decoder]
  IN  /\ fs' = IF url \in DOMAIN fs THEN fs ELSE (url :> names) @@ fs
      /\ IF pass.failed
           THEN Reject(pass.error, calls)
           ELSE /\ stack' = [stack EXCEPT ![Len(stack)] =
                       [@ EXCEPT !.entries = SortEntries(pass.entries),
                                 !.i = 1,
                                 !.pc = "load"]]
                /\ log' = calls
                /\ UNCHANGED <<status, outcome>>

\* readDirectoryContents resolves; steps 1 and 2 of loadValue follow.
ReadDirectoryContentsResolves ==
  /\ status = "running"
  /\ Top.pc = "listing"
  /\ \E names \in ListingsOf(Top.entry.url) :
       Decided(names,
               DecisionPass(engine.loaders, Top.entry.relativePath,
                 Top.mergedOptions, 1,
                 [entries |-> [n \in 1..Len(names) |->
                                 DirectoryEntry(Top.entry.url, names[n])],
                  probes |-> <<>>, keys |-> <<>>, decoder |-> <<>>,
                  failed |-> FALSE, error |-> ""]))
  /\ UNCHANGED <<engine, session, request, first, calc, fluent>>

\* A step 3 that loads every entry a loader was bound to.
ShouldLoadWhenBound(entry) == entry.loader # 0

\* directoryEntry.key !== undefined
ShouldLoad(entry) == entry.key.def

\* Step 3 of loadValue for the next entry: an entry without key is passed
\* over, any other is loaded by its loader.
LoadEntry ==
  /\ status = "running"
  /\ Top.pc = "load"
  /\ Top.i <= Len(Top.entries)
  /\ LET entry == Top.entries[Top.i]
         loader == engine.loaders[entry.loader]
         calls == [log EXCEPT !.loads = Append(@,
                     [loader |-> entry.loader,
                      entry |-> entry,
                      options |-> Top.mergedOptions,
                      started |-> [probes |-> Len(log.probes),
                                   keys |-> Len(log.keys),
                                   stores |-> Len(log.stores)]])]
     IN  IF ~ShouldLoad(entry)
           THEN /\ stack' = [stack EXCEPT ![Len(stack)].i = @ + 1]
                /\ UNCHANGED <<status, outcome, log>>
         ELSE IF loader.kind = "self"
           THEN Began([stack EXCEPT ![Len(stack)].pc = "await"],
                      Begin(engine, entry, Top.mergedOptions, calls))
         ELSE IF Throws(loader, "loadValue", entry)
           THEN Reject("LoadError", calls)
         ELSE LET read == ReadTextFromFile(entry.url)
                  reads ==
                    IF loader.kind = "file"
                      THEN [calls EXCEPT !.backend = Append(@,
                              [op |-> "readTextFromFile",
                               reader |-> engine.fileSystemReader,
                               url |-> entry.url,
                               options |-> Top.mergedOptions])]
                      ELSE calls
              IN  IF ~read.ok
                    THEN Reject("ReadError", reads)
                    ELSE Continued(SubSeq(stack, 1, Len(stack) - 1),
                                   Stored(Top, read.value, reads))
  /\ UNCHANGED <<engine, session, request, fs, first, calc, fluent>>

\* The end of loadValue: the directory URL is embedded, the listing is
\* disposed and the result returned, to the caller or to the activation
\* that awaits it.
Return ==
  /\ status = "running"
  /\ Top.pc = "load"
  /\ Top.i > Len(Top.entries)
  /\ LET result == EmbedDirectoryUrl(engine.variant, Top.result, Top.entry,
                                     Top.options)
         calls == Disposed(log, Top.entry.url,
                           ActualFileSystemReader(engine, Top.mergedOptions))
     IN  IF Len(stack) = 1
           THEN /\ status' = "resolved"
                /\ outcome' = [value |-> result, error |-> ""]
                /\ stack' = <<>>
                /\ log' = calls
           ELSE Continued(SubSeq(stack, 1, Len(stack) - 2),
                          Stored(stack[Len(stack) - 1], result, calls))
  /\ UNCHANGED <<engine, session, request, fs, first, calc, fluent>>

\* The first load of a session has ended and the caller loads the same
\* tree again: through the same engine and with the same options, the
\* backend presenting its listings in any order ("permuted"), or through
\* an engine without default options, passing the defaults of the first
\* engine at the call site ("swapped").
LoadAgain ==
  /\ session.mode \in {"permuted", "swapped"}
  /\ session.run = 1
  /\ status \in {"resolved", "rejected"}
  /\ first' = [status |-> status, outcome |-> outcome, log |-> log]
  /\ session' = [session EXCEPT !.run = 2]
  /\ IF session.mode = "swapped"
       THEN /\ engine' = DirectoryValueLoader(engine.variant,
                            SubSeq(engine.loaders, 1, Len(engine.loaders) - 1),
                            engine.fileSystemReader, NoOptions)
            /\ request' = engine.defaultOptions
       ELSE UNCHANGED <<engine, request>>
  /\ status' = "idle"
  /\ outcome' = NoOutcome
  /\ log' = NoLog
  /\ UNCHANGED <<stack, fs, calc, fluent>>

Engines ==
  {DirectoryValueLoader(v, c[1], "builder", c[2]) :
     v \in {"object", "array"}, c \in Configurations}

\* The engines of a session of two loads.
PermutedEngines ==
  {DirectoryValueLoader(v, l, "builder", d) :
     v \in {"object", "array"}, l \in LoaderLists,
     d \in {NoOptions, merging}}

SwappedEngines ==
  {DirectoryValueLoader(v, l, "builder", d) :
     v \in {"object", "array"}, l \in LoaderLists,
     d \in {strictOn, strictOff, live, aborted, merging, embedding,
            decoding, overriding, symlinks}}

Init ==
  /\ engine \in Engines
  /\ session = [mode |-> "single", run |-> 1]
  /\ request = NoOptions
  /\ stack = <<>>
  /\ status = "idle"
  /\ outcome = NoOutcome
  /\ log = NoLog
  /\ fs = <<>>
  /\ first = NoFirst
  /\ calc = NoCalc
  /\ fluent = NoFluent

Next ==
  \/ LoadValueCall
  \/ ReadDirectoryContentsResolves
  \/ LoadEntry
  \/ Return

Spec == Init /\ [][Next]_vars

InitPair ==
  /\ \/ /\ session = [mode |-> "permuted", run |-> 1]
        /\ engine \in PermutedEngines
     \/ /\ session = [mode |-> "swapped", run |-> 1]
        /\ engine \in SwappedEngines
  /\ request = NoOptions
  /\ stack = <<>>
  /\ status = "idle"
  /\ outcome = NoOutcome
  /\ log = NoLog
  /\ fs = <<>>
  /\ first = NoFirst
  /\ calc = NoCalc
  /\ fluent = NoFluent

\* An array engine loads a directory of numbered names.
InitNumbered ==
  /\ session = [mode |-> "numbered", run |-> 1]
  /\ engine \in {DirectoryValueLoader("array", l, "builder", NoOptions) :
                    l \in LoaderLists \cup OtherLoaderLists}
  /\ request = NoOptions
  /\ stack = <<>>
  /\ status = "idle"
  /\ outcome = NoOutcome
  /\ log = NoLog
  /\ fs = <<>>
  /\ first = NoFirst
  /\ calc = NoCalc
  /\ fluent = NoFluent

SpecNumbered == InitNumbered /\ [][Next]_vars

(***************************************************************************)
(* FluentLoaderImpl: a loader that wraps an inner ValueLoader and applies   *)
(* overrides to it.  A predicate and a key computation are written as a    *)
(* kind and its arguments, strings as sequences of characters.             *)
(***************************************************************************)
\* The number of refinements made in a session.
MaxRefinements == 2

NoFunction == [kind |-> "undefined", args |-> <<>>]

\* overrides = {}
NoOverrides ==
  [name |-> "", canLoadValue |-> NoFunction, computeKey |-> NoFunction]

StartsWith(s, prefix) ==
  Len(s) >= Len(prefix) /\ SubSeq(s, 1, Len(prefix)) = prefix

\* The number of path separators of a path.
Separators(path) == Cardinality({i \in 1..Len(path) : path[i] = "/"})

subStar == <<"/", "s", "u", "b", "/", "*">>
starJson == <<"/", "*", ".", "j", "s", "o", "n">>
globStar == <<"/", "*", "*">>

\* picomatch(pattern)(path) for the patterns of the model: /sub/* is one
\* segment below /sub, /*.json one segment ending in .json, /** any path
\* below the root; nothing matches the empty path.
Matches(pattern, path) ==
  CASE pattern = subStar ->
         /\ StartsWith(path, <<"/", "s", "u", "b", "/">>)
         /\ Len(path) > 5
         /\ Separators(path) = 2
    [] pattern = starJson ->
         /\ StartsWith(path, <<"/">>)
         /\ Separators(path) = 1
         /\ EndsWith(path, dotJson)
    [] pattern = globStar -> StartsWith(path, <<"/">>) /\ Len(path) > 1
    [] OTHER -> FALSE

\* overrides.canLoadValue(entry)
PredicateHolds(predicate, entry) ==
  CASE predicate.kind = "caller" -> entry.type = "file"
    [] predicate.kind = "endsWith" ->
         EndsWith(entry.name, predicate.args[1])
    [] predicate.kind = "endsWithSome" ->
         \E i \in DOMAIN predicate.args :
           EndsWith(entry.name, predicate.args[i])
    [] predicate.kind = "matches" ->
         Matches(predicate.args[1], entry.relativePath)
    [] predicate.kind = "every" ->
         \A i \in DOMAIN predicate.args :
           Matches(predicate.args[i], entry.relativePath)
    [] predicate.kind = "some" ->
         \E i \in DOMAIN predicate.args :
           Matches(predicate.args[i], entry.relativePath)
    [] OTHER -> TRUE

\* What computeKey gives when the key computation throws.
Threw == [def |-> FALSE, s |-> <<"!">>]

\* overrides.computeKey(name)
ComputationOf(computation, name) ==
  CASE computation.kind = "caller" -> Defined(<<"_">> \o name)
    [] computation.kind = "strip" ->
         Defined(DropLast(name, Len(computation.args[1])))
    [] computation.kind = "stripFound" ->
         LET found == {i \in DOMAIN computation.args :
                         EndsWith(name, computation.args[i])}
         IN  IF found = {} THEN Threw   \* ensureIsDefined(undefined)
             ELSE LET i == CHOOSE i \in found : \A j \in found : i <= j
                  IN  Defined(DropLast(name, Len(computation.args[i])))
    [] OTHER -> Defined(name)

\* FluentLoaderImpl.newLoader(innerLoader, overrides)
NewLoader(innerLoader, overrides) ==
  [innerLoader |-> innerLoader, overrides |-> overrides, frozen |-> TRUE]

\* get name()
FluentName(loader) ==
  IF loader.overrides.name # "" THEN loader.overrides.name
  ELSE loader.innerLoader.name

\* FluentLoaderImpl.canLoadValue(entry)
FluentCanLoadValue(loader, entry) ==
  LET innerAnswer == CanLoadValue(loader.innerLoader.loader, entry)
  IN  IF loader.overrides.canLoadValue.kind = "undefined" THEN innerAnswer
      ELSE innerAnswer /\ PredicateHolds(loader.overrides.canLoadValue, entry)

\* FluentLoaderImpl.computeKey(entry)
FluentComputeKey(loader, entry) ==
  LET innerComputed == ComputeKey(loader.innerLoader.loader, entry)
  IN  IF loader.overrides.computeKey.kind # "undefined" /\ innerComputed.def
        THEN ComputationOf(loader.overrides.computeKey, innerComputed.s)
        ELSE innerComputed

\* The overrides a refinement method builds from its argument.
OverridesOf(how) ==
  CASE how.method = "withName" -> [NoOverrides EXCEPT !.name = how.name]
    [] how.method = "when" ->
         [NoOverrides EXCEPT
            !.canLoadValue = [kind |-> "caller", args |-> how.args]]
    [] how.method = "whenExtensionIs" ->
         [NoOverrides EXCEPT
            !.canLoadValue = [kind |-> "endsWith", args |-> how.args],
            !.computeKey = [kind |-> "strip", args |-> how.args]]
    [] how.method = "whenExtensionIsOneOf" ->
         [NoOverrides EXCEPT
            !.canLoadValue = [kind |-> "endsWithSome", args |-> how.args],
            !.computeKey = [kind |-> "stripFound", args |-> how.args]]
    [] how.method = "whenPathMatches" ->
         [NoOverrides EXCEPT
            !.canLoadValue = [kind |-> "matches", args |-> how.args]]
    [] how.method = "whenPathMatchesEvery" ->
         [NoOverrides EXCEPT
            !.canLoadValue = [kind |-> "every", args |-> how.args]]
    [] how.method = "whenPathMatchesSome" ->
         [NoOverrides EXCEPT
            !.canLoadValue = [kind |-> "some", args |-> how.args]]
    [] how.method = "withKeyComputation" ->
         [NoOverrides EXCEPT
            !.computeKey = [kind |-> "caller", args |-> how.args]]

\* A refinement method that changes the overrides of the loader it is
\* called on and returns that loader.
RefinedInPlace(loader, how) ==
  LET changed == NewLoader(loader.innerLoader, OverridesOf(how))
  IN  [receiver |-> changed, returned |-> changed]

\* withName, when, whenExtensionIs, whenExtensionIsOneOf, whenPathMatches,
\* whenPathMatchesEvery, whenPathMatchesSome, withKeyComputation: the loader
\* the method was called on, after the call, and the loader returned.
Refined(loader, how) ==
  [receiver |-> loader,
   returned |-> NewLoader(loader.innerLoader, OverridesOf(how))]

\* The strings numberAwareComparison is called with, and undefined.
ComparedKeys ==
  {Undefined} \cup
  {Defined(k) : k \in {<<"0">>, <<"2">>, <<"9">>, <<"1", "0">>, <<"-", "1">>,
                        <<"0", "9">>, <<" ", "0", "9">>, <<"0", "9", " ">>,
                        <<"1", "2", "a", "b", "c">>, <<"a", "b", "c">>,
                        <<"d", "e", "f">>}}

\* The decoded keys of the entries of a directory that is sorted.
SortedKeys ==
  {Undefined, Defined(<<"9">>), Defined(<<"1", "0">>), Defined(<<"0", "9">>),
   Defined(<<"a", "b", "c">>)}

\* numberAwareComparison(a, b) is called.
CompareCall ==
  /\ calc.op = "none"
  /\ \E a \in ComparedKeys, b \in ComparedKeys :
       calc' = [NoCalc EXCEPT !.op = "compare", !.a = a, !.b = b,
                              !.result = NumberAwareComparison(a, b)]
  /\ UNCHANGED <<engine, session, request, stack, status, outcome, log, fs,
                 first, fluent>>

\* The keys whose order is looked at three at a time.
OrderedKeys ==
  {Undefined} \cup
  {Defined(k) : k \in {<<"2">>, <<"1", "0">>, <<"0", "9">>, <<"a", "b", "c">>,
                        <<"e">>, <<"U+00E9">>, <<"e", "U+0301">>, <<"f">>}}

\* numberAwareComparison is called on each pair of three keys.
OrderCall ==
  /\ calc.op = "none"
  /\ \E a \in OrderedKeys, b \in OrderedKeys, c \in OrderedKeys :
       calc' = [NoCalc EXCEPT
                  !.op = "order", !.keys = <<a, b, c>>,
                  !.results = [aa |-> NumberAwareComparison(a, a),
                               ab |-> NumberAwareComparison(a, b),
                               ba |-> NumberAwareComparison(b, a),
                               bc |-> NumberAwareComparison(b, c),
                               ac |-> NumberAwareComparison(a, c)]]
  /\ UNCHANGED <<engine, session, request, stack, status, outcome, log, fs,
                 first, fluent>>

\* Step 2 of loadValue on entries with the given decoded keys.
SortCall ==
  /\ calc.op = "none"
  /\ \E keys \in UNION {[1..n -> SortedKeys] : n \in 0..MaxEntries} :
       LET entries == [i \in 1..Len(keys) |-> [decodedKey |-> keys[i]]]
           sorted == SortEntries(entries)
       IN  calc' = [NoCalc EXCEPT
                      !.op = "sort", !.keys = keys,
                      !.sorted = [i \in 1..Len(sorted) |->
                                    sorted[i].decodedKey]]
  /\ UNCHANGED <<engine, session, request, stack, status, outcome, log, fs,
                 first, fluent>>

\* A constructor that keeps the caller's array and registers the engine
\* in it.
ConstructedInPlace(variant, loaders) ==
  [engine |-> [variant |-> variant, loaders |-> Append(loaders, Self),
               fileSystemReader |-> "builder", defaultOptions |-> NoOptions],
   loaders |-> Append(loaders, Self),
   aliased |-> TRUE]

\* new DirectoryObjectValueLoader(name, loaders, reader) or its array
\* variant: the engine, the caller's list after the call, and whether the
\* engine works on the caller's array.
Constructed(variant, loaders) ==
  [engine |-> DirectoryValueLoader(variant, loaders, "builder", NoOptions),
   loaders |-> loaders,
   aliased |-> FALSE]

\* What a caller may make of its list of loaders: a loader added in front,
\* the first loader removed, the order reversed.
Mutations(loaders) ==
  {<<MockLoader(<<>>, "name")>> \o loaders,
   Tail(loaders),
   [i \in 1..Len(loaders) |-> loaders[Len(loaders) + 1 - i]]} \ {loaders}

\* The caller changes the list it constructed the engine with, before,
\* during or after a load.
MutateLoaders ==
  /\ session.mutations = 0
  /\ \E loaders \in Mutations(session.loaders) :
       /\ session' = [session EXCEPT !.loaders = loaders, !.mutations = 1,
                                     !.during = status]
       /\ engine' = IF session.aliased
                      THEN [engine EXCEPT !.loaders = loaders]
                      ELSE engine
  /\ UNCHANGED <<request, stack, status, outcome, log, fs, first, calc,
                 fluent>>

\* An engine made from a list of loaders the caller keeps.
InitCloning ==
  /\ \E variant \in {"object", "array"}, loaders \in LoaderLists :
       LET made == Constructed(variant, loaders)
       IN  /\ engine = made.engine
           /\ session = [mode |-> "cloning", run |-> 1,
                         original |-> loaders, loaders |-> made.loaders,
                         aliased |-> made.aliased, mutations |-> 0,
                         during |-> ""]
  /\ request = NoOptions
  /\ stack = <<>>
  /\ status = "idle"
  /\ outcome = NoOutcome
  /\ log = NoLog
  /\ fs = <<>>
  /\ first = NoFirst
  /\ calc = NoCalc
  /\ fluent = NoFluent

NextCloning ==
  \/ Next
  \/ MutateLoaders

SpecCloning == InitCloning /\ [][NextCloning]_vars

\* The loaders of files a builder makes.
FileLoaderVariants == {"textFile", "binaryFile", "customFile"}

\* fileReader.readTextFromFile(url, options) or readBinaryFromFile: a
\* reader that honours the signal throws when it is aborted, one that does
\* not reads the file.
ReadFromFile(honours, url, options) ==
  IF honours /\ AbortRequested(options)
    THEN [ok |-> FALSE, value |-> Prim(""), error |-> "AbortError"]
    ELSE [ok |-> ReadTextFromFile(url).ok,
          value |-> ReadTextFromFile(url).value,
          error |-> IF ReadTextFromFile(url).ok THEN "" ELSE "ReadError"]

\* loadValue(entry, options) of a text, binary or custom file loader: what
\* the reader gives, parsed by the custom loader's parser.
FileLoadValue(variant, honours, entry, options) ==
  LET read == ReadFromFile(honours, entry.url, options)
  IN  [ok |-> read.ok, value |-> read.value, error |-> read.error,
       parsed |-> IF variant = "customFile" /\ read.ok
                    THEN <<[entry |-> entry, contents |-> read.value]>>
                    ELSE <<>>]

\* A caller calls loadValue of a file loader.
FileLoadValueCall ==
  /\ session.mode = "file"
  /\ \E variant \in FileLoaderVariants, name \in RootNames,
        options \in {NoOptions, live, aborted} :
       LET entry == [DirectoryEntry(<<>>, name) EXCEPT
                       !.relativePath = RelativePath(<<>>, name)]
           loaded == FileLoadValue(variant, session.honours, entry, options)
       IN  /\ session' = [session EXCEPT !.variant = variant]
           /\ request' = options
           /\ status' = IF loaded.ok THEN "resolved" ELSE "rejected"
           /\ outcome' = [value |-> loaded.value, error |-> loaded.error]
           /\ log' = [NoLog EXCEPT
                        !.backend = <<[op |-> IF variant = "binaryFile"
                                                THEN "readBinaryFromFile"
                                                ELSE "readTextFromFile",
                                       reader |-> "builder",
                                       url |-> entry.url,
                                       options |-> options]>>,
                        !.loads = <<[loader |-> 0, entry |-> entry,
                                     options |-> options,
                                     started |-> [probes |-> 0, keys |-> 0,
                                                  stores |-> 0]]>>,
                        !.parsed = loaded.parsed,
                        !.thrown = IF loaded.ok THEN <<>>
                                   ELSE <<loaded.error>>]
  /\ UNCHANGED <<engine, stack, fs, first, calc, fluent>>

\* The file loaders of a builder whose reader honours the signal or not.
InitFile ==
  /\ \E honours \in BOOLEAN :
       session = [mode |-> "file", run |-> 1, honours |-> honours,
                  variant |-> ""]
  /\ engine = DirectoryValueLoader("object", <<>>, "builder", NoOptions)
  /\ request = NoOptions
  /\ stack = <<>>
  /\ status = "idle"
  /\ outcome = NoOutcome
  /\ log = NoLog
  /\ fs = <<>>
  /\ first = NoFirst
  /\ calc = NoCalc
  /\ fluent = NoFluent

NextFile == FileLoadValueCall

SpecFile == InitFile /\ [][NextFile]_vars

\* A load of a directory whose entries are files and a directory.
InitSequence ==
  /\ session = [mode |-> "sequence", run |-> 1]
  /\ engine \in {DirectoryValueLoader(v, l, "builder", NoOptions) :
                    v \in {"object", "array"}, l \in LoaderLists}
  /\ request = NoOptions
  /\ stack = <<>>
  /\ status = "idle"
  /\ outcome = NoOutcome
  /\ log = NoLog
  /\ fs = <<>>
  /\ first = NoFirst
  /\ calc = NoCalc
  /\ fluent = NoFluent

SpecSequence == InitSequence /\ [][Next]_vars

\* The readDirectoryContents an activation awaits rejects.
ReadDirectoryContentsRejects ==
  /\ status = "running"
  /\ Top.pc = "listing"
  /\ Reject("ListingError", log)
  /\ UNCHANGED <<engine, session, request, fs, first, calc, fluent>>

\* The methods of a loader that may fail; "none" is a loader that works.
FailingMethods == {"canLoadValue", "computeKey", "loadValue", "none"}

\* A load with a loader one of whose methods fails, through a reader whose
\* listings may fail.
InitFailing ==
  /\ session = [mode |-> "failing", run |-> 1]
  /\ engine \in {DirectoryValueLoader(v, <<FailingLoader(m)>>, "builder",
                                       NoOptions) :
                    v \in {"object", "array"}, m \in FailingMethods}
  /\ request = NoOptions
  /\ stack = <<>>
  /\ status = "idle"
  /\ outcome = NoOutcome
  /\ log = NoLog
  /\ fs = <<>>
  /\ first = NoFirst
  /\ calc = NoCalc
  /\ fluent = NoFluent

NextFailing ==
  \/ Next
  \/ ReadDirectoryContentsRejects

SpecFailing == InitFailing /\ [][NextFailing]_vars

\* A load through readers whose listings carry an innerFileSystemReader.
InitCompanion ==
  /\ session = [mode |-> "companion", run |-> 1]
  /\ engine \in {DirectoryValueLoader(v, l, "builder", NoOptions) :
                    v \in {"object", "array"}, l \in LoaderLists}
  /\ request = NoOptions
  /\ stack = <<>>
  /\ status = "idle"
  /\ outcome = NoOutcome
  /\ log = NoLog
  /\ fs = <<>>
  /\ first = NoFirst
  /\ calc = NoCalc
  /\ fluent = NoFluent

SpecCompanion == InitCompanion /\ [][Next]_vars

InitCompare ==
  /\ session = [mode |-> "compare", run |-> 1]
  /\ engine = DirectoryValueLoader("object", <<>>, "builder", NoOptions)
  /\ request = NoOptions
  /\ stack = <<>>
  /\ status = "idle"
  /\ outcome = NoOutcome
  /\ log = NoLog
  /\ fs = <<>>
  /\ first = NoFirst
  /\ calc = NoCalc
  /\ fluent = NoFluent

NextCompare ==
  \/ CompareCall
  \/ SortCall
  \/ OrderCall

SpecCompare == InitCompare /\ [][NextCompare]_vars

(***************************************************************************)
(* Fluent loaders: a session wraps a value loader with makeFluent, refines *)
(* the loaders it has, and calls the loader it made last.  Each loader is  *)
(* kept with the value newLoader returned for it, the loader it was        *)
(* refined from and the refinement that made it.                           *)
(***************************************************************************)
\* The value loaders given to makeFluent.
InnerLoaders ==
  {[name |-> "mock", loader |-> MockLoader(<<>>, "name")],
   [name |-> "yaml", loader |-> MockLoader(dotYaml, "undefined")],
   [name |-> "directory", loader |-> Self]}

NoRefinement == [method |-> "makeFluent", name |-> "", args |-> <<>>]

\* The refinement calls of a session.
Refinements ==
  {[method |-> "withName", name |-> "renamed", args |-> <<>>],
   [method |-> "when", name |-> "", args |-> <<>>],
   [method |-> "whenExtensionIs", name |-> "", args |-> <<dotJson>>],
   [method |-> "whenExtensionIsOneOf", name |-> "",
    args |-> <<dotYaml, dotJson>>],
   [method |-> "whenPathMatches", name |-> "", args |-> <<subStar>>],
   [method |-> "whenPathMatchesEvery", name |-> "",
    args |-> <<globStar, starJson>>],
   [method |-> "whenPathMatchesSome", name |-> "",
    args |-> <<subStar, starJson>>],
   [method |-> "withKeyComputation", name |-> "", args |-> <<>>]}

\* The entry of a directory with the path the engine gives it.
InContext(directoryUrl, parentPath, name) ==
  [DirectoryEntry(directoryUrl, name) EXCEPT
     !.relativePath = parentPath \o <<"/">> \o name]

\* The entries the loaders are asked about.
FluentEntries ==
  {InContext(<<>>, <<>>, aJson), InContext(<<>>, <<>>, aYaml),
   InContext(<<>>, <<>>, sub), InContext(<<sub>>, <<"/">> \o sub, bJson)}

\* makeFluent(loader)
MakeFluent ==
  /\ fluent.loaders = <<>>
  /\ \E innerLoader \in InnerLoaders :
       LET made == NewLoader(innerLoader, NoOverrides)
       IN  fluent' = [fluent EXCEPT
                        !.loaders = <<[loader |-> made, created |-> made,
                                       from |-> 0, how |-> NoRefinement]>>]
  /\ UNCHANGED <<engine, session, request, stack, status, outcome, log, fs,
                 first, calc>>

\* A refinement method is called on one of the loaders.
RefineCall ==
  /\ fluent.call.op = "none"
  /\ Len(fluent.loaders) <= MaxRefinements
  /\ \E i \in DOMAIN fluent.loaders, how \in Refinements :
       LET r == Refined(fluent.loaders[i].loader, how)
       IN  fluent' = [fluent EXCEPT
                        !.loaders =
                          Append([@ EXCEPT ![i].loader = r.receiver],
                                 [loader |-> r.returned,
                                  created |-> r.returned,
                                  from |-> i, how |-> how])]
  /\ UNCHANGED <<engine, session, request, stack, status, outcome, log, fs,
                 first, calc>>

\* loader.canLoadValue(entry) is called.
CanLoadValueCall ==
  /\ fluent.call.op = "none"
  /\ \E i \in {Len(fluent.loaders)} \ {0}, entry \in FluentEntries :
       fluent' = [fluent EXCEPT
                    !.call = [NoCall EXCEPT
                                !.op = "canLoadValue", !.loader = i,
                                !.entry = entry,
                                !.accepted =
                                  FluentCanLoadValue(fluent.loaders[i].loader,
                                                     entry)]]
  /\ UNCHANGED <<engine, session, request, stack, status, outcome, log, fs,
                 first, calc>>

\* loader.computeKey(entry) is called; invoked tells whether the key
\* computation of the overrides ran.
ComputeKeyCall ==
  /\ fluent.call.op = "none"
  /\ \E i \in {Len(fluent.loaders)} \ {0}, entry \in FluentEntries :
       LET loader == fluent.loaders[i].loader
       IN  fluent' = [fluent EXCEPT
                        !.call = [NoCall EXCEPT
                                    !.op = "computeKey", !.loader = i,
                                    !.entry = entry,
                                    !.key = FluentComputeKey(loader, entry),
                                    !.invoked =
                                      /\ loader.overrides.computeKey.kind
                                           # "undefined"
                                      /\ ComputeKey(loader.innerLoader.loader,
                                                    entry).def]]
  /\ UNCHANGED <<engine, session, request, stack, status, outcome, log, fs,
                 first, calc>>

\* The common body of loadDirectory and loadFile: the call made on loader
\* number i, with the loader loadValue was invoked on or the error thrown.
LoadRoot(op, i, loader, type, url, options) ==
  LET entry == [NoCall.entry EXCEPT !.type = type, !.url = url]
      call == [NoCall EXCEPT !.op = op, !.loader = i, !.entry = entry,
                             !.options = options]
  IN  IF ~CanLoadValue(loader.innerLoader.loader, entry)
        THEN [call EXCEPT !.error = [loader |-> FluentName(loader),
                                     url |-> url]]
        ELSE [call EXCEPT !.accepted = TRUE, !.invoked = TRUE,
                          !.loaded = [loader |-> loader.innerLoader.name,
                                      options |-> options]]

\* loader.loadDirectory(directoryUrl, options) is called.
LoadDirectoryCall ==
  /\ fluent.call.op = "none"
  /\ \E i \in {Len(fluent.loaders)} \ {0},
        directoryUrl \in {<<>>, <<sub>>},
        options \in {NoOptions, strictOn} :
       fluent' = [fluent EXCEPT
                    !.call = LoadRoot("loadDirectory", i,
                                      fluent.loaders[i].loader, "directory",
                                      directoryUrl, options)]
  /\ UNCHANGED <<engine, session, request, stack, status, outcome, log, fs,
                 first, calc>>

\* loader.loadFile(fileUrl, options) is called.
LoadFileCall ==
  /\ fluent.call.op = "none"
  /\ \E i \in {Len(fluent.loaders)} \ {0},
        fileUrl \in {<<aJson>>, <<sub>>},
        options \in {NoOptions, strictOn} :
       fluent' = [fluent EXCEPT
                    !.call = LoadRoot("loadFile", i,
                                      fluent.loaders[i].loader, "file",
                                      fileUrl, options)]
  /\ UNCHANGED <<engine, session, request, stack, status, outcome, log, fs,
                 first, calc>>

InitFluent ==
  /\ session = [mode |-> "fluent", run |-> 1]
  /\ engine = DirectoryValueLoader("object", <<>>, "builder", NoOptions)
  /\ request = NoOptions
  /\ stack = <<>>
  /\ status = "idle"
  /\ outcome = NoOutcome
  /\ log = NoLog
  /\ fs = <<>>
  /\ first = NoFirst
  /\ calc = NoCalc
  /\ fluent = NoFluent

NextFluent ==
  \/ MakeFluent
  \/ RefineCall
  \/ CanLoadValueCall
  \/ ComputeKeyCall
  \/ LoadDirectoryCall
  \/ LoadFileCall

SpecFluent == InitFluent /\ [][NextFluent]_vars

(***************************************************************************)
(* Two top-level loads of the same directory through one engine, running   *)
(* concurrently: each activation runs from one await to the next.  The     *)
(* backend either resolves every readDirectoryContents with the same array *)
(* of entry objects ("shared", as MockFileSystemReader does) or with new   *)
(* objects ("fresh", as the platform readers do).  In such a session stack *)
(* holds the two activations and fs the backend's array.                   *)
(***************************************************************************)
\* An activation that has not been called yet.
NoLoad ==
  [pc |-> "idle", options |-> NoOptions, mergedOptions |-> NoOptions,
   entries |-> <<>>, i |-> 0, current |-> <<>>, index |-> 0,
   result |-> Prim(""), error |-> ""]

\* The names of the files the directory of a concurrent session may list.
ConcurrentNames == {aJson, lJson, lYaml, zero}

\* The position from n on of the next entry that has a key, 0 if none.
NextWithKey(entries, n) ==
  LET keyed == {j \in n..Len(entries) : entries[j].key.def}
  IN  IF keyed = {} THEN 0
      ELSE CHOOSE j \in keyed : \A k \in keyed : j <= k

\* Step 3 of loadValue goes on with the entry at position j, or ends when
\* j is 0.
ContinueAt(load, entries, j) ==
  IF j = 0
    THEN [load EXCEPT
            !.pc = "resolved", !.i = Len(entries) + 1,
            !.result = EmbedDirectoryUrl(engine.variant, load.result,
                                         RootEntry, load.options)]
    ELSE [load EXCEPT !.pc = "loading", !.i = j,
                      !.current = entries[j].name]

\* Step 3 of loadValue from position n of the array on, up to the next
\* await: loadValue is called for the next entry with a key, or the loop
\* ends and the result is returned.
Continue(load, entries, n) == ContinueAt(load, entries, NextWithKey(entries, n))

\* The start of step 3 on the sorted array.
ListedSorted(load, sorted) ==
  [entries |-> sorted, load |-> Continue(load, sorted, 1)]

\* loadValue from the listing to its next await: steps 1 and 2 on the
\* array the backend resolved with, and the start of step 3.
Listed(load, array) ==
  ListedSorted(load,
    SortEntries(
      DecisionPass(engine.loaders, <<>>, load.mergedOptions, 1,
        [entries |-> array, probes |-> <<>>, keys |-> <<>>,
         decoder |-> <<>>, failed |-> FALSE, error |-> ""]).entries))

\* The value was set in the result; step 3 goes on.
LoadedSet(load, entries, set) ==
  Continue([load EXCEPT !.result = set.result, !.index = set.index + 1],
           entries, load.i + 1)

\* The value loaded for the entry object is stored, the file URL embedded.
LoadedFrom(load, entries, directoryEntry) ==
  IF ~directoryEntry.decodedKey.def   \* ensureIsDefined throws
    THEN [load EXCEPT !.pc = "rejected", !.error = "NotDefined"]
    ELSE LoadedSet(load, entries,
           SetValue(engine.variant, load.result,
                    directoryEntry.decodedKey.s, load.index,
                    EmbedFileUrl(directoryEntry,
                                 ReadTextFromFile(directoryEntry.url).value,
                                 load.mergedOptions),
                    load.mergedOptions))

\* loadValue from the end of the awaited loader call to its next await: the
\* value is stored under the decoded key the entry object has now.
Loaded(load, entries) ==
  LoadedFrom(load, entries,
             entries[CHOOSE j \in 1..Len(entries) :
                       entries[j].name = load.current])

\* The entries as readDirectoryContents creates them.
Fresh(names) == [n \in 1..Len(names) |-> DirectoryEntry(<<>>, names[n])]

RECURSIVE RunAlone(_, _)
\* An activation run to its end with no other activation.
RunAlone(load, entries) ==
  IF load.pc # "loading" THEN load
  ELSE RunAlone(Loaded(load, entries), entries)

\* A listed activation run to its end.
RunListed(l) == RunAlone(l.load, l.entries)

\* What loadValue(root, options) returns on the listed names when it is the
\* only load.
LoadedAlone(options, names) ==
  RunListed(Listed([NoLoad EXCEPT
                      !.options = options,
                      !.mergedOptions =
                        MergeOptions(engine.defaultOptions, options),
                      !.result = NewEmptyResult(engine.variant)],
                   Fresh(names)))

\* The array of entries an activation works on.
EntriesOf(load) == IF fs.kind = "shared" THEN fs.entries ELSE load.entries

\* A caller calls loadValue on the root entry while another load may be
\* in progress.
ConcurrentCall ==
  /\ \E n \in DOMAIN stack, options \in {NoOptions, decoding} :
       /\ stack[n].pc = "idle"
       /\ stack' = [stack EXCEPT ![n] =
                      [NoLoad EXCEPT
                         !.pc = "listing", !.options = options,
                         !.mergedOptions =
                           MergeOptions(engine.defaultOptions, options),
                         !.result = NewEmptyResult(engine.variant)]]
  /\ UNCHANGED <<engine, session, request, status, outcome, log, fs, first,
                 calc, fluent>>

\* The activation n has worked on its listing: the array of a shared
\* listing now holds its decisions, in its order.
ConcurrentListed(n, l) ==
  IF fs.kind = "shared"
    THEN /\ fs' = [fs EXCEPT !.entries = l.entries]
         /\ stack' = [stack EXCEPT ![n] = l.load]
    ELSE /\ fs' = fs
         /\ stack' = [stack EXCEPT ![n] =
                        [l.load EXCEPT !.entries = l.entries]]

\* The readDirectoryContents of one of the loads resolves.
ConcurrentListing ==
  /\ \E n \in DOMAIN stack :
       /\ stack[n].pc = "listing"
       /\ ConcurrentListed(n, Listed(stack[n],
                                     IF fs.kind = "shared" THEN fs.entries
                                     ELSE Fresh(fs.names)))
  /\ UNCHANGED <<engine, session, request, status, outcome, log, first, calc,
                 fluent>>

\* The loadValue one of the loads awaits resolves.
ConcurrentLoaded ==
  /\ \E n \in DOMAIN stack :
       /\ stack[n].pc = "loading"
       /\ stack' = [stack EXCEPT ![n] = Loaded(stack[n], EntriesOf(stack[n]))]
  /\ UNCHANGED <<engine, session, request, status, outcome, log, fs, first,
                 calc, fluent>>

InitConcurrent ==
  /\ session = [mode |-> "concurrent", run |-> 1]
  /\ engine \in {DirectoryValueLoader(v, l, "builder", NoOptions) :
                    v \in {"object", "array"}, l \in LoaderLists}
  /\ request = NoOptions
  /\ stack = <<NoLoad, NoLoad>>
  /\ status = "running"
  /\ outcome = NoOutcome
  /\ log = NoLog
  /\ fs \in {[kind |-> k, names |-> names, entries |-> Fresh(names)] :
               k \in {"shared", "fresh"},
               names \in Listings(ConcurrentNames, MaxEntries)}
  /\ first = NoFirst
  /\ calc = NoCalc
  /\ fluent = NoFluent

NextConcurrent ==
  \/ ConcurrentCall
  \/ ConcurrentListing
  \/ ConcurrentLoaded

SpecConcurrent == InitConcurrent /\ [][NextConcurrent]_vars

NextPair ==
  \/ Next
  \/ LoadAgain

SpecPair == InitPair /\ [][NextPair]_vars

(***************************************************************************)
(* Properties.                                                             *)
(***************************************************************************)
\* The value the engine is to use for an attribute: the call site's where
\* the call site sets it, the default otherwise ("" for undefined).
Effective(attribute) ==
  IF Has(request, attribute) THEN request.o[attribute]
  ELSE Get(engine.defaultOptions, attribute)

Finished == status \in {"resolved", "rejected"}

Probes == Range(log.probes)

Keys == Range(log.keys)

Loads == Range(log.loads)

Stores == Range(log.stores)

Merges == Range(log.merges)

\* The listed entries that no loader accepted.
Unaccepted ==
  {p.entry.url : p \in Probes} \ {p.entry.url : p \in {q \in Probes : q.result}}

SameOptions(a, b) == \A attribute \in Attributes :
                       Get(a, attribute) = Get(b, attribute)

\* C1: whichever permutation of its entries each directory listing
\* presents, loadValue returns the same value: a second load of the same
\* tree with the same engine and options, the listings permuted, ends as
\* the first one did.
C1_Determinism ==
  (session.mode = "permuted" /\ session.run = 2 /\ Finished
     /\ first.status = "resolved")
    => (status = "resolved" /\ outcome = first.outcome)

\* C2: each entry is probed by the loaders in registration order up to the
\* first that accepts, no loader after it; computeKey is called exactly once
\* per accepted entry and loadValue at most once, both on the bound loader.
C2_LoaderPrecedence ==
  /\ \A i \in DOMAIN log.probes :
       LET p == log.probes[i]
           earlier == {j \in 1..(i - 1) :
                         log.probes[j].entry.url = p.entry.url}
       IN  /\ p.loader = Cardinality(earlier) + 1
           /\ p.loader <= Len(engine.loaders)
           /\ \A j \in earlier : ~log.probes[j].result
  /\ \A p \in Probes :
       p.result =>
         Cardinality({i \in DOMAIN log.keys :
                        log.keys[i].entry.url = p.entry.url}) = 1
  /\ \A k \in Keys :
       \E p \in Probes :
         p.entry.url = k.entry.url /\ p.loader = k.loader /\ p.result
  /\ \A i \in DOMAIN log.loads :
       LET l == log.loads[i]
       IN  /\ \E p \in Probes :
                p.entry.url = l.entry.url /\ p.loader = l.loader /\ p.result
           /\ \A j \in DOMAIN log.loads :
                log.loads[j].entry.url = l.entry.url => j = i

\* An entry was loaded by the loader bound to it while a loader registered
\* later accepts it too.
C2_Witness ==
  \E l \in Loads :
    \E j \in (l.loader + 1)..Len(engine.loaders) :
      CanLoadValue(engine.loaders[j], l.entry)

\* C3: an entry that no registered loader accepts, at any depth, is left
\* out and fails nothing unless strict is true; when strict is true the
\* top-level load rejects.
C3_StrictMode ==
  LET strict == Effective("strict") = "true"
  IN  /\ (strict /\ Unaccepted # {})
           => (status = "rejected" /\ outcome.error = "StrictError")
      /\ (status = "rejected" /\ outcome.error = "StrictError")
           => (strict /\ Unaccepted # {})
      /\ \A l \in Loads : l.entry.url \notin Unaccepted
      /\ \A s \in Stores : s.entry.url \notin Unaccepted

\* A strict load was rejected for an entry of a nested directory.
C3_Witness ==
  /\ status = "rejected"
  /\ outcome.error = "StrictError"
  /\ \E url \in Unaccepted : Len(url) = 2

\* C4: an accepted entry whose computeKey returns undefined is not loaded,
\* stores nothing, is not given to propertyNameDecoder and fails nothing,
\* strict or not.
C4_UndefinedKeySkips ==
  /\ \A k \in Keys :
       ~k.key.def =>
         /\ \A l \in Loads : l.entry.url # k.entry.url
         /\ \A s \in Stores : s.entry.url # k.entry.url
         /\ \A d \in Range(log.decoder) : d.entry.url # k.entry.url
         /\ k.entry.url \notin Unaccepted
  /\ (status = "rejected" /\ outcome.error = "StrictError")
       => Unaccepted # {}
  /\ \A s \in Stores : s.entry.key.def

\* A strict load resolved although the key of an accepted entry was
\* undefined, and stored the value of another entry.
C4_Witness ==
  /\ status = "resolved"
  /\ Effective("strict") = "true"
  /\ \E k \in Keys : ~k.key.def
  /\ Stores # {}

\* C5: with a signal already aborted, in the call-site options or in the
\* defaults, loadValue rejects with the abort reason and has called neither
\* the backend nor any loader.
C5_CancelledBeforeStart ==
  (status # "idle" /\ Effective("signal") = "aborted")
    => /\ status = "rejected"
       /\ outcome.error = "AbortReason"
       /\ log.backend = <<>>
       /\ log.opened = <<>>
       /\ log.probes = <<>>
       /\ log.keys = <<>>
       /\ log.loads = <<>>

\* The aborted signal came from the defaults of the engine.
C5_Witness ==
  /\ status = "rejected"
  /\ outcome.error = "AbortReason"
  /\ ~request.def
  /\ Get(engine.defaultOptions, "signal") = "aborted"

\* The merge function a store in an object is to apply: "" for none.
ExpectedMerge(s) ==
  LET key == s.entry.decodedKey.s
  IN  IF ~HasProp(s.before, key) THEN ""
      ELSE IF IsRecord(s.before.props[key]) /\ IsRecord(s.new)
        THEN Effective("objectMergeFunction")
      ELSE IF IsArray(s.before.props[key]) /\ IsArray(s.new)
        THEN Effective("arrayMergeFunction")
      ELSE ""

\* C6: in the object variant a value stored under a key that already holds
\* one becomes objectMergeFunction(existing, new) for two records,
\* arrayMergeFunction(existing, new) for two arrays, and the new value
\* otherwise or when the function is not configured; merge functions are
\* called on such collisions only, the existing value first.
C6_SetOrMerge ==
  engine.variant = "object" =>
    /\ \A s \in Stores :
         LET key == s.entry.decodedKey.s
             fn == ExpectedMerge(s)
         IN  /\ DOMAIN s.after.props = DOMAIN s.before.props \cup {key}
             /\ \A k \in DOMAIN s.before.props \ {key} :
                  s.after.props[k] = s.before.props[k]
             /\ s.after.props[key] =
                  IF fn = "" THEN s.new
                  ELSE ApplyMerge(fn, s.before.props[key], s.new)
    /\ \A m \in Merges :
         \E s \in Stores :
           /\ s.entry = m.entry
           /\ ExpectedMerge(s) = m.fn
           /\ m.fn # ""
           /\ m.existing = s.before.props[s.entry.decodedKey.s]
           /\ m.new = s.new
    /\ Len(log.merges) =
         Cardinality({i \in DOMAIN log.stores :
                        ExpectedMerge(log.stores[i]) # ""})

\* Two records met under one key and were merged by the configured
\* function, the properties of both surviving.
C6_Witness ==
  /\ engine.variant = "object"
  /\ \E m \in Merges :
       /\ m.fn = "assign"
       /\ IsRecord(m.existing)
       /\ m.existing.props # m.new.props

C8_DefaultsAsCallSite ==
  (session.mode = "swapped" /\ session.run = 2 /\ Finished)
    => /\ status = first.status
       /\ outcome = first.outcome
       /\ Len(log.backend) = Len(first.log.backend)
       /\ \A i \in DOMAIN log.backend :
            /\ i \in DOMAIN first.log.backend
            /\ log.backend[i].op = first.log.backend[i].op
            /\ log.backend[i].reader = first.log.backend[i].reader
            /\ SameOptions(log.backend[i].options,
                           first.log.backend[i].options)
       /\ Len(log.loads) = Len(first.log.loads)
       /\ \A i \in DOMAIN log.loads :
            /\ i \in DOMAIN first.log.loads
            /\ SameOptions(log.loads[i].options, first.log.loads[i].options)

\* C9: the engine is the last loader of its list, after the caller's; a
\* directory no caller's loader accepts is bound to it, keyed by its name,
\* loaded by a nested loadValue with the merged options of the parent, and
\* its result, an object in the object variant and an array in the array
\* variant, is stored under the decoded name.
C9_SelfRegistration ==
  LET n == Len(engine.loaders)
      own == {j \in 1..(n - 1) : TRUE}
  IN  /\ n >= 1
      /\ engine.loaders[n] = Self
      /\ \A j \in own : engine.loaders[j].kind # "self"
      /\ \A k \in Keys :
           (k.entry.type = "directory"
              /\ \A j \in own : ~CanLoadValue(engine.loaders[j], k.entry))
             => (k.loader = n /\ k.key = Defined(k.entry.name))
      /\ \A l \in Loads :
           l.loader = n =>
             /\ l.entry.type = "directory"
             /\ \A a \in Attributes : Get(l.options, a) = Effective(a)
      /\ \A i \in 2..Len(stack) :
           /\ stack[i - 1].pc = "await"
           /\ stack[i].entry = stack[i - 1].entries[stack[i - 1].i]
           /\ stack[i].entry.loader = n
           /\ stack[i].options = stack[i - 1].mergedOptions
      /\ \A s \in Stores :
           s.entry.loader = n =>
             /\ s.entry.decodedKey =
                  Defined(Decode(Effective("propertyNameDecoder"),
                                 s.entry.name))
             /\ s.new.kind = (IF engine.variant = "object" THEN "rec"
                              ELSE "arr")
             /\ IF engine.variant = "object"
                  THEN HasProp(s.after, s.entry.decodedKey.s)
                  ELSE s.after.props[NumberToString(s.index)] = s.new

\* The result of a directory of a directory was stored in its parent.
C9_Witness ==
  \E s \in Stores :
    /\ s.entry.loader = Len(engine.loaders)
    /\ Len(s.entry.url) = 2
    /\ s.new.props # NoProps

\* The indices of the model's arrays.
Indices == 0..12

\* The stores of the entries of the root directory.
RootStores == {s \in Stores : Len(s.entry.url) = 1}

\* C10: in the array variant an entry whose decoded key is the numeral of
\* the non-negative integer n is stored at index n, every store assigns one
\* index and no other, and an array whose keys are all numeric has the
\* length of its largest index plus one.
C10_SparseArray ==
  engine.variant = "array" =>
    /\ \A s \in Stores :
         /\ \A n \in Indices :
              s.entry.decodedKey.s = NumberToString(n) => s.index = n
         /\ DOMAIN s.after.props =
              DOMAIN s.before.props \cup {NumberToString(s.index)}
         /\ s.after.props[NumberToString(s.index)] = s.new
    /\ status = "resolved" =>
         /\ DOMAIN outcome.value.props =
              {NumberToString(s.index) : s \in RootStores}
         /\ (/\ RootStores # {}
             /\ \A s \in RootStores :
                  \E n \in Indices : s.entry.decodedKey.s = NumberToString(n))
              => \E s \in RootStores :
                   /\ outcome.value.len = s.index + 1
                   /\ \A t \in RootStores : t.index <= s.index

\* C12: undefined sorts after every defined string and equals undefined:
\* compare(undefined, s) > 0, compare(s, undefined) < 0,
\* compare(undefined, undefined) = 0, and in a sorted listing the entries
\* without key come last.
C12_UndefinedSortsLast ==
  /\ calc.op = "compare" =>
       /\ (~calc.a.def /\ calc.b.def) => calc.result > 0
       /\ (calc.a.def /\ ~calc.b.def) => calc.result < 0
       /\ (~calc.a.def /\ ~calc.b.def) => calc.result = 0
  /\ calc.op = "sort" =>
       \A i, j \in DOMAIN calc.sorted :
         (i < j /\ ~calc.sorted[i].def) => ~calc.sorted[j].def

\* The integers whose numerals the compared keys can be.
Numerals == -20..20

IsNumeral(k) == \E n \in Numerals : NumberToString(n) = k

NumeralValue(k) == CHOOSE n \in Numerals : NumberToString(n) = k

\* a comes before b in the lexicographic order of the alphabet.
LexLess(a, b) ==
  \E i \in 1..(Len(a) + 1) :
    /\ i <= Len(b)
    /\ \A j \in 1..(i - 1) : a[j] = b[j]
    /\ \/ i = Len(a) + 1
       \/ i <= Len(a) /\ CharRank(a[i]) < CharRank(b[i])

C11_ArrayAppend ==
  engine.variant = "array" =>
    /\ \A s \in Stores :
         /\ s.index >= 0
         /\ s.index < s.after.len
         /\ (\A n \in Indices : s.entry.decodedKey.s # NumberToString(n))
              => s.index = s.before.len
    /\ status = "resolved" =>
         Cardinality({k \in DOMAIN outcome.value.props :
                        \E n \in Indices : k = NumberToString(n)})
           = Cardinality(RootStores)

\* An array of length 10 with elements at 0 and 9 only, the 9 from the
\* name 9.json.
C10_Witness ==
  /\ engine.variant = "array"
  /\ status = "resolved"
  /\ outcome.value.len = 10
  /\ DOMAIN outcome.value.props = {NumberToString(0), NumberToString(9)}
  /\ \E s \in RootStores : s.entry.name = nineJson

(***************************************************************************)
(* Fluent loaders.                                                         *)
(***************************************************************************)
\* The refinement methods that add a predicate.
PredicateMethods ==
  {"when", "whenExtensionIs", "whenExtensionIsOneOf", "whenPathMatches",
   "whenPathMatchesEvery", "whenPathMatchesSome"}

\* The refinement methods that add a key transform.
KeyMethods == {"withKeyComputation", "whenExtensionIs", "whenExtensionIsOneOf"}

\* The loaders that were refined from another loader.
RefinedLoaders == {i \in DOMAIN fluent.loaders : fluent.loaders[i].from # 0}

\* The loader number i was refined from.
ReceiverOf(i) == fluent.loaders[fluent.loaders[i].from].loader

\* C14: a loader refined from a loader L with a predicate p, L itself
\* refined or not, accepts an entry exactly when L accepts the entry and p
\* holds for it.
C14_PredicatesAccumulate ==
  \A i \in RefinedLoaders :
    fluent.loaders[i].how.method \in PredicateMethods =>
      \A entry \in FluentEntries :
        FluentCanLoadValue(fluent.loaders[i].loader, entry)
          = (/\ FluentCanLoadValue(ReceiverOf(i), entry)
             /\ PredicateHolds(OverridesOf(fluent.loaders[i].how).canLoadValue,
                               entry))

\* C15: a loader refined from a loader L with a key transform f, L itself
\* refined or not, computes f of the key L computes, and no key where L
\* computes none; f does not run for an entry without a key.
C15_KeyTransformsCompose ==
  /\ \A i \in RefinedLoaders :
       fluent.loaders[i].how.method \in KeyMethods =>
         \A entry \in FluentEntries :
           LET key == FluentComputeKey(ReceiverOf(i), entry)
           IN  FluentComputeKey(fluent.loaders[i].loader, entry)
                 = IF key.def
                     THEN ComputationOf(
                            OverridesOf(fluent.loaders[i].how).computeKey,
                            key.s)
                     ELSE key
  /\ (fluent.call.op = "computeKey" /\ fluent.call.invoked) =>
       FluentComputeKey(fluent.loaders[fluent.call.loader].loader,
                        fluent.call.entry) # Undefined

\* C16: every loader is frozen, and whatever was refined from it since it
\* was made, its name and its canLoadValue and computeKey for every entry
\* are those it had when it was made.
C16_RefinementsNeverMutate ==
  \A i \in DOMAIN fluent.loaders :
    LET now == fluent.loaders[i].loader
        made == fluent.loaders[i].created
    IN  /\ now.frozen
        /\ FluentName(now) = FluentName(made)
        /\ \A entry \in FluentEntries :
             /\ FluentCanLoadValue(now, entry)
                  = FluentCanLoadValue(made, entry)
             /\ FluentComputeKey(now, entry) = FluentComputeKey(made, entry)

\* Two loaders refined from the same loader that answer differently from
\* each other and from that loader.
C16_Witness ==
  \E i \in RefinedLoaders, j \in RefinedLoaders, entry \in FluentEntries :
    /\ i < j
    /\ fluent.loaders[i].from = fluent.loaders[j].from
    /\ FluentCanLoadValue(ReceiverOf(i), entry)
    /\ ~FluentCanLoadValue(fluent.loaders[i].loader, entry)
    /\ FluentCanLoadValue(fluent.loaders[j].loader, entry)
    /\ FluentComputeKey(fluent.loaders[j].loader, entry)
         # FluentComputeKey(ReceiverOf(j), entry)

\* C17: a loader made by withName(n) from a loader L, L itself refined or
\* not, has the name n, and for every entry the canLoadValue answer and the
\* computeKey result of L; it loads with the inner loader L loads with.
C17_WithNameChangesOnlyName ==
  \A i \in RefinedLoaders :
    fluent.loaders[i].how.method = "withName" =>
      /\ FluentName(fluent.loaders[i].loader) = fluent.loaders[i].how.name
      /\ fluent.loaders[i].loader.innerLoader = ReceiverOf(i).innerLoader
      /\ \A entry \in FluentEntries :
           /\ FluentCanLoadValue(fluent.loaders[i].loader, entry)
                = FluentCanLoadValue(ReceiverOf(i), entry)
           /\ FluentComputeKey(fluent.loaders[i].loader, entry)
                = FluentComputeKey(ReceiverOf(i), entry)

\* C18: loadDirectory and loadFile call loadValue, on the root entry of the
\* given URL and with the caller's options, exactly when the canLoadValue of
\* the loader they are called on accepts that entry; otherwise they throw
\* an error that names the loader and the URL.
C18_LoadConfirmsAcceptance ==
  fluent.call.op \in {"loadDirectory", "loadFile"} =>
    LET loader == fluent.loaders[fluent.call.loader].loader
        entry == fluent.call.entry
    IN  /\ entry.name = <<>> /\ entry.relativePath = <<>>
        /\ entry.type
             = (IF fluent.call.op = "loadFile" THEN "file" ELSE "directory")
        /\ fluent.call.invoked = FluentCanLoadValue(loader, entry)
        /\ fluent.call.invoked =>
             fluent.call.loaded = [loader |-> loader.innerLoader.name,
                                   options |-> fluent.call.options]
        /\ ~fluent.call.invoked =>
             fluent.call.error
               = [loader |-> FluentName(loader), url |-> entry.url]

(***************************************************************************)
(* Storage backends.                                                       *)
(***************************************************************************)
\* The calls made to the storage backends.
BackendCalls == Range(log.backend)

\* C19: when the options of the call carry a fileSystemReader, every call
\* to a storage backend during the load, listings and file reads alike,
\* goes to that reader.
C19_StorageOverride ==
  Has(request, "fileSystemReader") =>
    \A call \in BackendCalls : call.reader = Get(request, "fileSystemReader")

\* C20: when the listing of a directory came with an innerFileSystemReader,
\* the files of that directory are read through it.
C20_CompanionBackend ==
  \A call \in BackendCalls, contents \in Range(log.opened) :
    (/\ call.op = "readTextFromFile"
     /\ contents.url = SubSeq(call.url, 1, Len(call.url) - 1)
     /\ contents.innerFileSystemReader # "") =>
      call.reader = contents.innerFileSystemReader

(***************************************************************************)
(* Embedding, failures and disposal.                                       *)
(***************************************************************************)
\* The result of the directory at url embeds that URL as the effective
\* embedDirectoryUrlAs asks, and holds no URL where nothing asks for one.
EmbedsDirectoryUrl(value, url) ==
  IF engine.variant = "object" /\ Effective("embedDirectoryUrlAs") # ""
    THEN /\ HasProp(value, Key(Effective("embedDirectoryUrlAs")))
         /\ value.props[Key(Effective("embedDirectoryUrlAs"))] = UrlValue(url)
    ELSE \A k \in DOMAIN value.props : value.props[k].kind # "url"

\* C21: with embedDirectoryUrlAs = P in effect, the result of the root and
\* of every nested directory of an object engine has the property P equal
\* to the URL of that directory; without the option, and in the array
\* variant, no directory result holds a directory URL.
C21_DirectoryUrlEmbedding ==
  /\ status = "resolved" => EmbedsDirectoryUrl(outcome.value, <<>>)
  /\ \A store \in Stores :
       store.entry.type = "directory" =>
         EmbedsDirectoryUrl(store.new, store.entry.url)

\* C22: each of two loads that run concurrently on one engine returns what
\* it returns when it runs alone, whatever the options of the other.
C22_ConcurrentLoadsIndependent ==
  session.mode = "concurrent" =>
    \A n \in DOMAIN stack :
      /\ stack[n].pc # "rejected"
      /\ stack[n].pc = "resolved" =>
           stack[n].result = LoadedAlone(stack[n].options, fs.names).result

\* The directory an entry is listed in.
DirectoryOf(entry) == SubSeq(entry.url, 1, Len(entry.url) - 1)

\* The loadValue of a loader other than the engine fails for the entry.
FailsToLoad(load) ==
  /\ engine.loaders[load.loader].kind # "self"
  /\ \/ Throws(engine.loaders[load.loader], "loadValue", load.entry)
     \/ ~ReadTextFromFile(load.entry.url).ok

\* C23: a failure of a listing, of a canLoadValue, of a computeKey or of a
\* loadValue, at any depth, rejects the top-level load with that error and
\* without a result; the failing loadValue is the last one called, and no
\* entry of a directory is loaded when a probe or a key computation of
\* that directory fails.  A load that resolves has met no failure.
C23_FailurePropagation ==
  /\ status # "rejected" =>
       /\ log.thrown = <<>>
       /\ \A i \in 1..(Len(log.loads) - 1) : ~FailsToLoad(log.loads[i])
       /\ status = "resolved" => \A load \in Loads : ~FailsToLoad(load)
  /\ status = "rejected" =>
       /\ stack = <<>>
       /\ log.thrown = <<outcome.error>>
       /\ outcome.value = Prim("")
       /\ \A i \in 1..(Len(log.loads) - 1) : ~FailsToLoad(log.loads[i])
       /\ outcome.error \in {"LoadError", "ReadError"} =>
            /\ log.loads # <<>>
            /\ FailsToLoad(log.loads[Len(log.loads)])
       /\ outcome.error \in {"ProbeError", "KeyError", "StrictError"} =>
            /\ log.probes # <<>>
            /\ \A load \in Loads :
                 DirectoryOf(load.entry)
                   # DirectoryOf(log.probes[Len(log.probes)].entry)

\* A load rejected by each kind of failure below the root: the loading of
\* the root had begun.
C23_Witness ==
  /\ status = "rejected"
  /\ outcome.error \in {"ListingError", "ProbeError", "KeyError", "LoadError"}
  /\ \E load \in Loads :
       /\ load.entry.type = "directory"
       /\ Len(load.entry.url) = 1
  /\ \E store \in Stores : Len(store.entry.url) = 1

\* The listings that came with a dispose function.
Disposable == {contents \in Range(log.opened) : contents.dispose}

\* How many times the listing of the directory at url was disposed of.
TimesDisposed(url) ==
  Cardinality({i \in DOMAIN log.disposed : log.disposed[i].url = url})

\* The load of the directory at url has returned its result.
Returned(url) ==
  IF url = <<>> THEN status = "resolved"
  ELSE \E store \in Stores : store.entry.url = url

\* The url is that of the directory or of something below it.
Below(url, directoryUrl) ==
  /\ Len(url) > Len(directoryUrl)
  /\ SubSeq(url, 1, Len(directoryUrl)) = directoryUrl

\* C24: the listing of a directory whose load succeeds is disposed of
\* exactly once, after every value of the directory and of the directories
\* below it was stored and before the result of the directory is returned;
\* never before, and a listing without dispose function is none the worse.
C24_DisposalOnSuccess ==
  /\ \A contents \in Range(log.opened) :
       /\ TimesDisposed(contents.url)
            = (IF contents.dispose /\ Returned(contents.url) THEN 1 ELSE 0)
       /\ (Returned(contents.url) /\ contents.url = <<>>) =>
            outcome.error = ""
  /\ \A i \in DOMAIN log.disposed, j \in DOMAIN log.stores :
       LET url == log.stores[j].entry.url
       IN  /\ Below(url, log.disposed[i].url) => j <= log.disposed[i].stores
           /\ url = log.disposed[i].url => j > log.disposed[i].stores

\* A resolved load that disposed of the listing of a nested directory in
\* which it had stored a value, and of the listing of the root.
C24_Witness ==
  /\ status = "resolved"
  /\ \E i \in DOMAIN log.disposed, store \in Stores :
       /\ Len(log.disposed[i].url) = 1
       /\ Below(store.entry.url, log.disposed[i].url)
  /\ TimesDisposed(<<>>) = 1

\* C27: when a top-level load has ended, resolved or rejected, every
\* listing that came with a dispose function has been disposed of.
C27_DisposalOnEveryPath ==
  Finished => \A contents \in Disposable : TimesDisposed(contents.url) >= 1

\* C25: the engine works on its own copy of the list of loaders it was
\* constructed with: construction leaves the caller's list as it was, and
\* whatever the caller does to the list later, every entry is bound to the
\* loader that comes first in the original list, the engine last.
C25_LoadersCloned ==
  session.mode = "cloning" =>
    /\ session.mutations = 0 => session.loaders = session.original
    /\ \A call \in Keys :
         call.loader
           = FirstAccepting(Append(session.original, Self), call.entry, 1)

\* The caller changed its list while the load was in flight, and an entry
\* was then bound to another loader than the changed list gives.
C25_Witness ==
  /\ session.mode = "cloning"
  /\ session.mutations = 1
  /\ session.during = "running"
  /\ status = "resolved"
  /\ \E call \in Keys :
       call.loader
         # FirstAccepting(Append(session.loaders, Self), call.entry, 1)

RECURSIVE Segments(_)
\* The names on the way from the root to an entry, each preceded by "/".
Segments(url) ==
  IF url = <<>> THEN <<>>
  ELSE Segments(SubSeq(url, 1, Len(url) - 1)) \o <<"/">> \o url[Len(url)]

\* The entries handed to canLoadValue, computeKey and loadValue.
Handed ==
  {call.entry : call \in Probes \cup Keys} \cup {call.entry : call \in Loads}

\* C26: every entry handed to canLoadValue, computeKey or loadValue has the
\* relative path of its parent directory followed by "/" and its own name,
\* the root having the empty path: one segment for each level below the
\* root.
C26_RelativePath ==
  \A entry \in Handed :
    /\ entry.relativePath = Segments(entry.url)
    /\ Len(entry.url) >= 1 =>
         \E parent \in Handed \cup {RootEntry} :
           /\ parent.url = SubSeq(entry.url, 1, Len(entry.url) - 1)
           /\ entry.relativePath
                = parent.relativePath \o <<"/">> \o entry.name

\* An entry two levels below the root was loaded.
C26_Witness ==
  \E call \in Loads :
    /\ Len(call.entry.url) = 2
    /\ call.entry.relativePath
         = <<"/">> \o call.entry.url[1] \o <<"/">> \o call.entry.url[2]

\* The loadValue was called and its value has not been stored.
InFlight(load) == \A store \in Stores : store.entry.url # load.entry.url

\* C28: the entries of a directory are loaded one after another in ascending
\* number-aware order of their decoded keys, each loadValue starting after
\* the value of the one before, a whole directory too, was stored; every
\* canLoadValue and computeKey of the directory's entries precedes its first
\* loadValue; and the loads in flight at any time are nested in one another.
C28_SequentialSortedLoading ==
  /\ \A i, j \in DOMAIN log.loads :
       LET prev == log.loads[i]
           next == log.loads[j]
       IN  i < j /\ DirectoryOf(prev.entry) = DirectoryOf(next.entry) =>
             /\ NumberAwareComparison(prev.entry.decodedKey,
                                      next.entry.decodedKey) <= 0
             /\ \E s \in 1..next.started.stores :
                  log.stores[s].entry.url = prev.entry.url
  /\ \A load \in Loads :
       /\ \A p \in DOMAIN log.probes :
            DirectoryOf(log.probes[p].entry) = DirectoryOf(load.entry)
              => p <= load.started.probes
       /\ \A k \in DOMAIN log.keys :
            DirectoryOf(log.keys[k].entry) = DirectoryOf(load.entry)
              => k <= load.started.keys
  /\ \A prev, next \in Loads :
       InFlight(prev) /\ InFlight(next) /\ prev # next =>
         \/ Below(prev.entry.url, next.entry.url)
         \/ Below(next.entry.url, prev.entry.url)

\* A directory listed out of order was loaded in order, a directory among
\* its entries: the entry after the directory was loaded once everything
\* below the directory was stored.
C28_Witness ==
  \E i, j \in DOMAIN log.loads :
    LET prev == log.loads[i]
        next == log.loads[j]
    IN  /\ i < j
        /\ DirectoryOf(prev.entry) = DirectoryOf(next.entry)
        /\ prev.entry.type = "directory"
        /\ \E load \in Loads : Below(load.entry.url, prev.entry.url)
        /\ \E l \in DOMAIN fs[DirectoryOf(prev.entry)] :
             \E m \in DOMAIN fs[DirectoryOf(prev.entry)] :
               /\ l < m
               /\ fs[DirectoryOf(prev.entry)][l] = next.entry.name
               /\ fs[DirectoryOf(prev.entry)][m] = prev.entry.name

\* C29: loadValue of a text, binary or custom file loader called with an
\* aborted signal rejects with the abort reason and gives no value, whether
\* the reader it reads through honours the signal or not; the parser is
\* not called.
C29_FileLoadersCheckCancellation ==
  session.mode = "file" /\ status # "idle" /\ AbortRequested(request) =>
    /\ status = "rejected"
    /\ outcome.error = "AbortError"
    /\ log.parsed = <<>>

Sign(n) == IF n < 0 THEN -1 ELSE IF n > 0 THEN 1 ELSE 0

\* C30: the number-aware comparison is a consistent total order on optional
\* keys: a key compares equal to itself, compare(b, a) has the opposite
\* sign of compare(a, b), a <= b and b <= c give a <= c, and only a key
\* itself compares equal to it.
C30_TotalOrder ==
  calc.op = "order" =>
    LET r == calc.results
    IN  /\ r.aa = 0
        /\ Sign(r.ab) = 0 - Sign(r.ba)
        /\ (r.ab <= 0 /\ r.bc <= 0) => r.ac <= 0
        /\ r.ab = 0 => calc.keys[1] = calc.keys[2]

====
